---- MODULE Spec2Model ----
\* Horology kernel (services/horology-kernel): the in-memory timer index, the
\* schedule and cancel operations, the per-timer fire task, restore from the
\* timer store, the command log, the leader handle and the event channel.
\*
\* Granularity: the kernel runs on a multithreaded runtime, so every lock
\* acquisition, store upsert, command-log append and channel send is its own
\* step.  A critical section of the index lock that contains no await is one
\* step; the arm step of the fire task awaits the store while it holds the
\* lock, so it is two steps with the lock held in between.
EXTENDS Integers, Sequences, FiniteSets, TLC

\* ---------------------------------------------------------------- bounds
MaxCalls == 2           \* API calls (schedule or cancel) made on the kernel
MaxFaults == 1          \* store / command-log operations that return Err
MaxLeaderChanges == 1   \* set_leader calls that change the flag
MaxDurationMs == 2      \* SchedulerConfig.max_duration_ms of the kernel
MaxTerm == 3            \* largest term written to the leader row
MaxDbErrors == 1        \* statements on the leader row that return Err
JitterWindow == 2       \* JitterMonitor::new(window)
MaxRecords == 3         \* samples recorded by one jitter monitor

\* ---------------------------------------------------------- value universes
Tenants == {"ta", "tb"}
TimerIds == {"id-1", "id-2"}                \* Uuid values
Reasons == {"manual"}                       \* cancel's reason; "none" is None
\* cancel's (tenant_id, timer_id): the owner's call, another tenant's call, and
\* a call for an id no timer has
CancelInputs == {<<"ta", "id-1">>, <<"tb", "id-1">>, <<"ta", "id-2">>}
DurationInputs == {0, 1, MaxDurationMs + 1}
\* TimerSpec.fire_at: None, or Some(ts) given as ts - now in ms
FireAtInputs ==
    {[some |-> FALSE, ms |-> 0]}
        \cup {[some |-> TRUE, ms |-> m] : m \in {-1, 0, 1, MaxDurationMs + 1}}

VARIABLES
    pool,       \* the ids Uuid::new_v4 has yet to return
    kernel,     \* "new" before with_runtime has run restore_from_store, then "running"
    timers,     \* KernelState.timers: the index, a map id -> TimerInstance
    lock,       \* holder of the index write lock: "free" or the id of the arming task
    store,      \* timer_records table of the store: id -> TimerInstance
    cmdlog,     \* timer_command_log: per timer id, the records appended, in order
    logOn,      \* KernelState.command_log is Some
    events,     \* event_tx: per timer id, the envelopes offered, in send order
    leader,     \* KernelState.leader: [configured, is_leader, sender, sent]
    tasks,      \* spawned fire tasks: id -> [pc, snap]
    calls,      \* API calls in progress or returned
    hist,       \* per timer, the statuses it has had, oldest first
    faults,     \* store / log errors injected so far
    changes,    \* leader changes so far
    leader_row, \* kernel_raft_state: the row with id = TRUE, or NoRow
    coord,      \* per node, its PostgresRaftCoordinator: flags and the two loops
    dberrs,     \* statements on kernel_raft_state that returned Err so far
    signing,    \* an EventSigner at work: the envelope it signed, altered, verified
    jitter,     \* a telemetry JitterMonitor: its window, and the last adjust_fire_at
    raft,       \* a RaftSupervisor: the metrics channel, its metrics task, the handle
    graphs,     \* TemporalGraphExecutor.state: root id -> TemporalGraphState
    ghist       \* per root, what the executor was told and returned since register_root

\* the kernel's state
kvars == <<pool, kernel, timers, lock, store, cmdlog, logOn, events, leader, tasks,
           calls, hist, faults, changes>>

\* the state of the Postgres coordinators and of their table
evars == <<leader_row, coord, dberrs>>

\* the signer and the jitter monitor
uvars == <<signing, jitter>>

\* the temporal graph executor
gvars == <<graphs, ghist>>

\* the Raft supervisor and the graph executor
wvars == <<raft, gvars>>

vars == <<kvars, evars, uvars, wvars>>

\* ------------------------------------------------------------- TimerInstance
\* TimerSpec.temporal_graph and TimerInstance.temporal_graph: None
NoGraph == [root |-> "", nodes |-> <<>>]

\* TimerSpec.graph_context: None
NoContext == [root_id |-> "", node_id |-> ""]

NoSnap == [id |-> "", tenant_id |-> "", status |-> "None", state_version |-> -1,
           cancel_reason |-> "none", graph_root_id |-> "", graph_node_id |-> "",
           temporal_graph |-> NoGraph]

NewTimer(id, tenant) ==
    [id |-> id, tenant_id |-> tenant, status |-> "Scheduled", state_version |-> 0,
     cancel_reason |-> "none", graph_root_id |-> "", graph_node_id |-> "",
     temporal_graph |-> NoGraph]

\* lines 567-597: the TimerInstance of a spec with a graph context or a graph
NewGraphTimer(id, tenant, graph_context, temporal_graph) ==
    LET timer == [NewTimer(id, tenant) EXCEPT !.graph_root_id = graph_context.root_id,
                                              !.graph_node_id = graph_context.node_id,
                                              !.temporal_graph = temporal_graph]
    IN  IF temporal_graph # NoGraph
        THEN [timer EXCEPT !.graph_root_id = id,
                           !.graph_node_id = IF @ = "" THEN temporal_graph.root ELSE @]
        ELSE timer

\* is_terminal with one status of the match dropped
IsTerminalNoSettled(t) == t.status \in {"Cancelled", "Failed"}

IsTerminalNoCancelled(t) == t.status \in {"Failed", "Settled"}

IsTerminal(t) == t.status \in {"Cancelled", "Failed", "Settled"}

TransitionNoBump(t, status) == [t EXCEPT !.status = status]

Transition(t, status) ==
    [t EXCEPT !.status = status, !.state_version = @ + 1]

\* HashMap::insert
Put(map, id, t) == [k \in (DOMAIN map) \cup {id} |-> IF k = id THEN t ELSE map[k]]

\* ------------------------------------------------------------- EventSigner
DedupeKeyNoVersion(tenant, id, version) == "timer:" \o tenant \o ":" \o id

DedupeKey(tenant, id, version) ==
    "timer:" \o tenant \o ":" \o id \o ":" \o ToString(version)

SignEvent(type, t, reason) ==
    [event_type |-> type,
     tenant_id |-> t.tenant_id,
     dedupe_key |-> DedupeKey(t.tenant_id, t.id, t.state_version),
     timer |-> t,
     reason |-> reason]

\* broadcast_signed_event.  The channel is one queue; the model keeps, for each
\* timer id, the subsequence of the envelopes of that id.
Broadcast(type, t, reason) ==
    events' = [events EXCEPT ![t.id] = Append(@, SignEvent(type, t, reason))]

\* ------------------------------------------------------------- LeaderHandle
\* KernelState.leader is an Option<LeaderHandle>: configured is Some.  Every
\* clone shares one LeaderInner: the flag is_leader and the Option holding the
\* shutdown sender (sender = it is still Some); sent counts sender.send(true).
NewLeaderHandle(configured, is_leader) ==
    [configured |-> configured, is_leader |-> is_leader, sender |-> TRUE, sent |-> 0]

DropHandleKeepsSender(h) ==
    IF h.configured
    THEN [h EXCEPT !.is_leader = FALSE, !.sent = @ + 1]
    ELSE h

\* Drop for LeaderHandle, run for every value of the type that goes out of
\* scope, clones included: take the sender and send true, then store false.
DropHandle(h) ==
    IF h.configured
    THEN [h EXCEPT !.is_leader = FALSE, !.sender = FALSE,
                   !.sent = IF h.sender THEN @ + 1 ELSE @]
    ELSE h

EnsureLeaderIgnored == TRUE

EnsureLeader == ~(leader.configured /\ ~leader.is_leader)

SetLeader ==
    /\ leader.configured
    /\ changes < MaxLeaderChanges
    /\ leader' = [leader EXCEPT !.is_leader = ~@]
    /\ changes' = changes + 1
    /\ UNCHANGED <<pool, kernel, timers, lock, store, cmdlog, logOn, events, tasks,
                   calls, hist, faults>>
    /\ UNCHANGED <<evars, uvars, wvars>>

\* ------------------------------------------------------------- TimerStore
\* PostgresTimerStore::load_active: WHERE status = 'scheduled' OR status = 'armed'
LoadActive == {id \in DOMAIN store : store[id].status \in {"Scheduled", "Armed"}}

\* Rows a previous run of a kernel can have left for one timer.
StoredRows(id) ==
    {Transition(NewTimer(id, "ta"), "Armed"),
     NewTimer(id, "ta"),
     Transition(Transition(Transition(NewTimer(id, "ta"), "Armed"), "Fired"), "Settled")}

HistOf(t) ==
    CASE t.status = "Scheduled" -> <<"Scheduled">>
      [] t.status = "Armed" -> <<"Scheduled", "Armed">>
      [] OTHER -> <<"Scheduled", "Armed", "Fired", "Settled">>

EmptyMap == [k \in {} |-> NoSnap]

\* a fire task: where it is, the snapshot it took last, and whether a store
\* or log write of its own has returned Err
NewTask(t) == [pc |-> "start", snap |-> t, failed |-> FALSE, ready |-> {}]

IdleCall == [op |-> "none", pc |-> "idle", tenant_id |-> "", id |-> "",
             reason |-> "none", snap |-> NoSnap, result |-> "pending", parent |-> ""]

\* ------------------------------------------------- PostgresRaftCoordinator
\* PostgresRaftSettings.node_id of the nodes that share the table
Nodes == {"node-a", "node-b"}

\* PostgresRaftSettings.election_timeout, in ticks of the clock
ElectionTimeout == 1

\* The row stores heartbeat_at.  The code only compares the time since
\* heartbeat_at with the election timeout, so the model keeps that difference
\* as the row's age, counted up to MaxAge.  The nodes and the database read
\* the same clock.
MaxAge == ElectionTimeout + 1

\* fetch_optional returned None: the table has no row
NoRow == [leader_id |-> "", term |-> 0, age |-> 0]

\* PostgresRaftCoordinator::start: the is_leader mutex holds false, the
\* handle reports follower, the heartbeat loop and the election loop wait for
\* their first tick.
\*   up      shutdown has not been called
\*   guard   the value in the is_leader mutex
\*   handle  LeaderHandle::is_leader()
\*   el      where the election loop is; seen, term and res are its locals
\*   hb      where the heartbeat loop is
NewCoordinator ==
    [up |-> TRUE, guard |-> FALSE, handle |-> FALSE, el |-> "idle", seen |-> NoRow,
     term |-> 0, res |-> FALSE, hb |-> "idle"]

\* ------------------------------------- EventSigner and telemetry JitterMonitor
NoEnvelope ==
    [envelope_id |-> "", tenant_id |-> "", occurred_at_iso |-> "", dedupe_key |-> "",
     trace_id |-> "", signature |-> "", signature_version |-> "",
     event |-> [type |-> "", timer |-> NoSnap, reason |-> "none"]]

\* no envelope signed yet
NoSigning ==
    [pc |-> "idle", secret |-> "", envelope |-> NoEnvelope, field |-> "none",
     verdict |-> "none"]

\* JitterMonitor::new: JitterState::default() and no adjust_fire_at call yet
NewJitterMonitor ==
    [samples |-> <<>>, sum |-> 0, records |-> 0, asked |-> FALSE, now |-> 0,
     target |-> 0, adjusted |-> 0]

\* ------------------------------------------------------------ RaftSupervisor
\* RaftSettings.node_id of the supervisor and of a peer
RaftNodeId == 1

RaftPeerId == 2

\* RaftMetrics as far as spawn_metrics_task reads it
NoMetrics == [current_leader |-> 0, state |-> "None"]

\* RaftSupervisor::start: the metrics channel holds no update the task has not
\* seen, last_leader is false, LeaderHandle::new reports follower.
\*   running   shutdown has not been called
\*   metrics   the value in the watch channel of raft.metrics()
\*   unseen    the channel was written since the task last read it
\*   last      last_leader of the metrics task
\*   snapshot  the value the task processed last
\*   handle    LeaderHandle::is_leader()
\*   dropped   a clone of the handle was dropped
\*   task      the metrics task waits on the channel, or has ended
NewRaftSupervisor ==
    [running |-> TRUE,
     metrics |-> [current_leader |-> 0, state |-> "Learner"],
     unseen |-> FALSE, last |-> FALSE, snapshot |-> NoMetrics, handle |-> FALSE,
     dropped |-> FALSE, task |-> "waiting"]

\* ----------------------------------------------------- TemporalGraphExecutor
\* TemporalGraphExecutor::new: no root is registered
NoGraphs == [k \in {} |-> [spec |-> NoGraph, scheduled |-> {}, completed |-> {}]]

\* no call of the executor yet
NoGraphCall == [op |-> "none", root_id |-> "", known |-> FALSE, ready |-> {}]

NoGraphHistory == [reg |-> <<>>, last |-> NoGraphCall]

\* none of these is at work while the kernel or the coordinators run
UnitsIdle ==
    /\ signing = NoSigning
    /\ jitter = NewJitterMonitor
    /\ raft = NewRaftSupervisor
    /\ graphs = NoGraphs
    /\ ghist = NoGraphHistory

CoordInit ==
    /\ leader_row = NoRow
    /\ coord = [n \in Nodes |-> NewCoordinator]
    /\ dberrs = 0

\* The kernel is constructed over a store that is empty or holds one row, with
\* or without a command log and a leader handle; the handle's supervisor runs
\* before the kernel is built, so the flag may already be set.  One Uuid is
\* left for schedule when the store is empty: every operation of a behaviour
\* then meets on the same timer.
Init ==
    /\ store \in {EmptyMap} \cup {Put(EmptyMap, "id-1", r) : r \in StoredRows("id-1")}
    /\ pool = {"id-1"} \ DOMAIN store
    /\ kernel = "new"
    /\ timers = EmptyMap
    /\ lock = "free"
    /\ cmdlog = [id \in TimerIds |-> <<>>]
    /\ logOn \in BOOLEAN
    /\ events = [id \in TimerIds |-> <<>>]
    /\ leader \in {NewLeaderHandle(FALSE, FALSE)}
                   \cup {NewLeaderHandle(TRUE, b) : b \in BOOLEAN}
    /\ tasks = EmptyMap
    /\ calls = [c \in 1..MaxCalls |-> IdleCall]
    /\ hist = EmptyMap
    /\ faults = 0
    /\ changes = 0
    /\ CoordInit
    /\ UnitsIdle

\* HorologyKernel::with_runtime -> restore_from_store
Restore ==
    /\ kernel = "new"
    /\ kernel' = "running"
    /\ timers' = [id \in LoadActive |-> store[id]]
    /\ hist' = [id \in LoadActive |-> HistOf(store[id])]
    /\ tasks' = [id \in {i \in LoadActive : ~IsTerminal(store[i])} |-> NewTask(store[id])]
    /\ UNCHANGED <<pool, lock, store, cmdlog, logOn, events, leader, calls, faults,
                   changes>>
    /\ UNCHANGED <<evars, uvars, wvars>>

\* A store upsert or a command-log append either succeeds or returns Err.
Fault == faults < MaxFaults /\ faults' = faults + 1

UpsertOk(t) == store' = Put(store, t.id, t)

LogRecordAsSchedule(command, tenant, id, t) ==
    [command |-> "schedule", tenant_id |-> tenant, timer_id |-> id, timer |-> t]

LogRecord(command, tenant, id, t) ==
    [command |-> command, tenant_id |-> tenant, timer_id |-> id, timer |-> t]

AppendOk(command, tenant, id, t) ==
    cmdlog' = [cmdlog EXCEPT ![id] = Append(@, LogRecord(command, tenant, id, t))]

\* ------------------------------------------------- HorologyKernel::schedule_timer
\* Ok(delay) or the validation error of lines 539-558.
ValidateSpecNoMax(duration_ms, fire_at) ==
    IF fire_at.some /\ fire_at.ms <= 0 THEN "InvalidFireTime"
    ELSE IF ~fire_at.some /\ duration_ms = 0 THEN "InvalidDuration"
    ELSE "Ok"

ValidateSpec(duration_ms, fire_at) ==
    LET delay == IF fire_at.some THEN fire_at.ms ELSE duration_ms
    IN  IF fire_at.some /\ fire_at.ms <= 0 THEN "InvalidFireTime"
        ELSE IF ~fire_at.some /\ duration_ms = 0 THEN "InvalidDuration"
        ELSE IF delay > MaxDurationMs THEN "InvalidDuration"
        ELSE "Ok"

\* Uuid::new_v4: an id no timer has
FreshId == CHOOSE id \in pool : TRUE

CanBegin(c) ==
    /\ kernel = "running"
    /\ calls[c].pc = "idle"
    /\ \A d \in 1..(c - 1) : calls[d].pc # "idle"

\* The call returns.  A returned call keeps the timer it acted on only when it
\* reached one.
Return(c, result) ==
    calls' = [calls EXCEPT ![c] =
                IF result \in {"Ok", "Some", "Persistence"}
                THEN [@ EXCEPT !.pc = "done", !.result = result]
                ELSE [IdleCall EXCEPT !.op = calls[c].op, !.pc = "done",
                                      !.result = result, !.parent = calls[c].parent]]

Goto(c, pc) == calls' = [calls EXCEPT ![c].pc = pc]

\* schedule_timer, lines 537-597, for one TimerSpec: the leader check, the
\* validation, the new TimerInstance.  parent names the caller when the call
\* is made by schedule_graph_node.
ScheduleTimer(c, parent, tenant, duration_ms, fire_at, graph_context, temporal_graph) ==
    LET verdict == ValidateSpec(duration_ms, fire_at)
        call == [calls[c] EXCEPT !.op = "schedule", !.tenant_id = tenant,
                                 !.parent = parent]
        failed(kind) == [IdleCall EXCEPT !.op = "schedule", !.pc = "done",
                                         !.result = kind, !.parent = parent]
    IN  IF ~EnsureLeader THEN failed("NotLeader")
        ELSE IF verdict # "Ok" THEN failed(verdict)
        ELSE [call EXCEPT !.pc = "insert", !.id = FreshId,
                          !.snap = NewGraphTimer(FreshId, tenant, graph_context,
                                                 temporal_graph)]

\* a Uuid is left for the call if it gets as far as Uuid::new_v4
HasId(duration_ms, fire_at) ==
    (EnsureLeader /\ ValidateSpec(duration_ms, fire_at) = "Ok") => pool # {}

ScheduleWith(c, tenant, duration_ms, fire_at) ==
    /\ CanBegin(c)
    /\ HasId(duration_ms, fire_at)
    /\ calls' = [calls EXCEPT ![c] =
                   ScheduleTimer(c, "", tenant, duration_ms, fire_at, NoContext, NoGraph)]
    /\ pool' = IF calls'[c].pc = "insert" THEN pool \ {FreshId} ELSE pool
    /\ UNCHANGED <<kernel, timers, lock, store, cmdlog, logOn, events, leader,
                   tasks, hist, faults, changes>>
    /\ UNCHANGED <<evars, uvars, wvars>>

ScheduleBegin(c) ==
    \E tenant \in Tenants, duration_ms \in DurationInputs, fire_at \in FireAtInputs :
        ScheduleWith(c, tenant, duration_ms, fire_at)

\* lines 599-602: insert into the index under the write lock
ScheduleInsert(c) ==
    /\ calls[c].op = "schedule" /\ calls[c].pc = "insert"
    /\ lock = "free"
    /\ timers' = Put(timers, calls[c].id, calls[c].snap)
    /\ hist' = Put(hist, calls[c].id, <<"Scheduled">>)
    /\ Goto(c, "persist")
    /\ UNCHANGED <<pool, kernel, lock, store, cmdlog, logOn, events, leader, tasks,
                   faults, changes>>
    /\ UNCHANGED <<evars, uvars, wvars>>

\* lines 604-608: store.upsert(&timer).await.map_err(...)?
SchedulePersist(c) ==
    /\ calls[c].op = "schedule" /\ calls[c].pc = "persist"
    /\ \/ /\ UpsertOk(calls[c].snap)
          /\ Goto(c, IF logOn THEN "log" ELSE "emit")
          /\ UNCHANGED faults
       \/ /\ Fault
          /\ Return(c, "Persistence")
          /\ UNCHANGED store
    /\ UNCHANGED <<pool, kernel, timers, lock, cmdlog, logOn, events, leader, tasks,
                   hist, changes>>
    /\ UNCHANGED <<evars, uvars, wvars>>

\* lines 609-612: record_command(Schedule).await?
ScheduleLog(c) ==
    /\ calls[c].op = "schedule" /\ calls[c].pc = "log"
    /\ \/ /\ AppendOk("schedule", calls[c].tenant_id, calls[c].id, calls[c].snap)
          /\ Goto(c, "emit")
          /\ UNCHANGED faults
       \/ /\ Fault
          /\ Return(c, "Persistence")
          /\ UNCHANGED cmdlog
    /\ UNCHANGED <<pool, kernel, timers, lock, store, logOn, events, leader, tasks,
                   hist, changes>>
    /\ UNCHANGED <<evars, uvars, wvars>>

\* lines 614-618: broadcast Scheduled, spawn the fire task, return the timer;
\* lines 515-517: schedule goes on when the timer carries a graph
ScheduleEmit(c) ==
    /\ calls[c].op = "schedule" /\ calls[c].pc = "emit"
    /\ Broadcast("Scheduled", calls[c].snap, "none")
    /\ tasks' = Put(tasks, calls[c].id, NewTask(calls[c].snap))
    /\ IF calls[c].parent = "" /\ calls[c].snap.temporal_graph # NoGraph
       THEN Goto(c, "register")
       ELSE Return(c, "Ok")
    /\ UNCHANGED <<pool, kernel, timers, lock, store, cmdlog, logOn, leader, hist,
                   faults, changes>>
    /\ UNCHANGED <<evars, uvars, wvars>>

\* ------------------------------------------------ HorologyKernel::get and list
GetAnyTenant(tenant_id, timer_id) ==
    IF timer_id \in DOMAIN timers THEN timers[timer_id] ELSE NoSnap

\* lines 670-676: timers.get(&timer_id).filter(|t| t.tenant_id == tenant_id)
Get(tenant_id, timer_id) ==
    IF timer_id \in DOMAIN timers /\ timers[timer_id].tenant_id = tenant_id
    THEN timers[timer_id]
    ELSE NoSnap

\* lines 678-687: the timers of the tenant.  The Vec is sorted by fire_at,
\* which the model's timers do not carry, so the result is kept as a set.
List(tenant_id) ==
    {timers[id] : id \in {i \in DOMAIN timers : timers[i].tenant_id = tenant_id}}

\* --------------------------------------------------------- HorologyKernel::cancel
CancelBegin(c) ==
    /\ CanBegin(c)
    /\ \E target \in CancelInputs, reason \in Reasons :
         LET call == [calls[c] EXCEPT !.op = "cancel", !.tenant_id = target[1],
                                      !.id = target[2], !.reason = reason]
         IN  IF ~EnsureLeader
             THEN calls' = [calls EXCEPT ![c] =
                              [IdleCall EXCEPT !.op = "cancel", !.pc = "done",
                                               !.result = "NotLeader"]]
             ELSE calls' = [calls EXCEPT ![c] = [call EXCEPT !.pc = "lock"]]
    /\ UNCHANGED <<pool, kernel, timers, lock, store, cmdlog, logOn, events, leader,
                   tasks, hist, faults, changes>>
    /\ UNCHANGED <<evars, uvars, wvars>>

CancelledEntry(entry, reason) ==
    [Transition(entry, "Cancelled") EXCEPT !.cancel_reason = reason]

\* lines 629-647: the critical section
CancelLock(c) ==
    /\ calls[c].op = "cancel" /\ calls[c].pc = "lock"
    /\ lock = "free"
    /\ LET id == calls[c].id IN
       IF id \notin DOMAIN timers
       THEN /\ Return(c, "None")
            /\ UNCHANGED <<timers, hist>>
       ELSE IF timers[id].tenant_id # calls[c].tenant_id
       THEN /\ calls' = [calls EXCEPT ![c].pc = "done", ![c].result = "None"]
            /\ UNCHANGED <<timers, hist>>
       ELSE IF IsTerminal(timers[id])
       THEN /\ calls' = [calls EXCEPT ![c].pc = "done", ![c].result = "Some",
                                      ![c].snap = timers[id]]
            /\ UNCHANGED <<timers, hist>>
       ELSE /\ timers' = [timers EXCEPT ![id] = CancelledEntry(@, calls[c].reason)]
            /\ hist' = [hist EXCEPT ![id] = Append(@, "Cancelled")]
            /\ calls' = [calls EXCEPT ![c].pc = "emit", ![c].snap = timers'[id]]
    /\ UNCHANGED <<pool, kernel, lock, store, cmdlog, logOn, events, leader, tasks,
                   faults, changes>>
    /\ UNCHANGED <<evars, uvars, wvars>>

\* lines 649-655
CancelEmit(c) ==
    /\ calls[c].op = "cancel" /\ calls[c].pc = "emit"
    /\ Broadcast("Cancelled", calls[c].snap, calls[c].reason)
    /\ Goto(c, "persist")
    /\ UNCHANGED <<pool, kernel, timers, lock, store, cmdlog, logOn, leader, tasks,
                   hist, faults, changes>>
    /\ UNCHANGED <<evars, uvars, wvars>>

\* lines 657-661
CancelPersist(c) ==
    /\ calls[c].op = "cancel" /\ calls[c].pc = "persist"
    /\ \/ /\ UpsertOk(calls[c].snap)
          /\ IF logOn THEN Goto(c, "log") ELSE Return(c, "Some")
          /\ UNCHANGED faults
       \/ /\ Fault
          /\ Return(c, "Persistence")
          /\ UNCHANGED store
    /\ UNCHANGED <<pool, kernel, timers, lock, cmdlog, logOn, events, leader, tasks,
                   hist, changes>>
    /\ UNCHANGED <<evars, uvars, wvars>>

\* lines 662-667
CancelLog(c) ==
    /\ calls[c].op = "cancel" /\ calls[c].pc = "log"
    /\ \/ /\ AppendOk("cancel", calls[c].tenant_id, calls[c].id, calls[c].snap)
          /\ Return(c, "Some")
          /\ UNCHANGED faults
       \/ /\ Fault
          /\ Return(c, "Persistence")
          /\ UNCHANGED cmdlog
    /\ UNCHANGED <<pool, kernel, timers, lock, store, logOn, events, leader, tasks,
                   hist, changes>>
    /\ UNCHANGED <<evars, uvars, wvars>>

\* ------------------------------------------------ HorologyKernel::spawn_fire_task
TaskAt(id, pc) == id \in DOMAIN tasks /\ tasks[id].pc = pc

TaskGoto(id, pc) == tasks' = [tasks EXCEPT ![id].pc = pc]

\* the future of a fire task owns state (with state.leader) and leader, the
\* clones of lines 690-691: both are dropped when the future returns.
TaskStep(id, pc) ==
    /\ TaskGoto(id, pc)
    /\ leader' = IF pc = "done" THEN DropHandle(DropHandle(leader)) ELSE leader

TaskErrAborts(id, pc) ==
    /\ tasks' = [tasks EXCEPT ![id].pc = "done", ![id].failed = TRUE]
    /\ leader' = DropHandle(DropHandle(leader))

\* if let Err(error) = .. { tracing::error!(..) }: the Err of a store upsert
\* or a log append is logged and the task goes on to the step a success
\* leads to
TaskErr(id, pc) ==
    /\ tasks' = [tasks EXCEPT ![id].pc = pc, ![id].failed = TRUE]
    /\ leader' = IF pc = "done" THEN DropHandle(DropHandle(leader)) ELSE leader

\* line 784: the task records a completion when its snapshot carries both
\* graph_root_id and graph_node_id
AfterFired(id) ==
    IF tasks[id].snap.graph_root_id # "" /\ tasks[id].snap.graph_node_id # ""
    THEN "graph"
    ELSE "settle"

\* lines 706-711: the first leader check
TaskStart(id) ==
    /\ TaskAt(id, "start")
    /\ TaskStep(id, IF EnsureLeader THEN "arm" ELSE "done")
    /\ UNCHANGED <<pool, kernel, timers, lock, store, cmdlog, logOn, events, calls,
                   hist, faults, changes>>
    /\ UNCHANGED <<evars, uvars, wvars>>

\* lines 713-716: take the write lock; Scheduled -> Armed.  The lock is still
\* held when the store is awaited (line 717); when the status is not Scheduled
\* the block ends and the task goes on to the sleep.
TaskArm(id) ==
    /\ TaskAt(id, "arm")
    /\ lock = "free"
    /\ IF id \in DOMAIN timers /\ timers[id].status = "Scheduled"
       THEN /\ timers' = [timers EXCEPT ![id] = Transition(@, "Armed")]
            /\ hist' = [hist EXCEPT ![id] = Append(@, "Armed")]
            /\ lock' = id
            /\ TaskStep(id, "armPersist")
       ELSE /\ TaskStep(id, "sleep")
            /\ UNCHANGED <<timers, hist, lock>>
    /\ UNCHANGED <<pool, kernel, store, cmdlog, logOn, events, calls, faults,
                   changes>>
    /\ UNCHANGED <<evars, uvars, wvars>>

\* lines 717-722: state.store.upsert(entry) under the lock, then the guard drops
TaskArmPersist(id) ==
    /\ TaskAt(id, "armPersist")
    /\ lock = id
    /\ \/ UpsertOk(timers[id]) /\ UNCHANGED faults /\ TaskStep(id, "sleep")
       \/ Fault /\ UNCHANGED store /\ TaskErr(id, "sleep")
    /\ lock' = "free"
    /\ UNCHANGED <<pool, kernel, timers, cmdlog, logOn, events, calls, hist,
                   changes>>
    /\ UNCHANGED <<evars, uvars, wvars>>

\* lines 724-731: the sleep ends, then the leader re-check
TaskSleep(id) ==
    /\ TaskAt(id, "sleep")
    /\ TaskStep(id, IF EnsureLeader THEN "fire" ELSE "done")
    /\ UNCHANGED <<pool, kernel, timers, lock, store, cmdlog, logOn, events, calls,
                   hist, faults, changes>>
    /\ UNCHANGED <<evars, uvars, wvars>>

\* lines 733-747
TaskFire(id) ==
    /\ TaskAt(id, "fire")
    /\ lock = "free"
    /\ IF id \notin DOMAIN timers \/ IsTerminal(timers[id])
       THEN /\ TaskStep(id, "done")
            /\ UNCHANGED <<timers, hist>>
       ELSE /\ timers' = [timers EXCEPT ![id] = Transition(@, "Fired")]
            /\ hist' = [hist EXCEPT ![id] = Append(@, "Fired")]
            /\ tasks' = [tasks EXCEPT ![id].pc = "emitFired", ![id].snap = timers'[id]]
            /\ UNCHANGED leader
    /\ UNCHANGED <<pool, kernel, lock, store, cmdlog, logOn, events, calls,
                   faults, changes>>
    /\ UNCHANGED <<evars, uvars, wvars>>

\* line 749
TaskEmitFired(id) ==
    /\ TaskAt(id, "emitFired")
    /\ Broadcast("Fired", tasks[id].snap, "none")
    /\ TaskStep(id, "persistFired")
    /\ UNCHANGED <<pool, kernel, timers, lock, store, cmdlog, logOn, calls,
                   hist, faults, changes>>
    /\ UNCHANGED <<evars, uvars, wvars>>

\* lines 750-752: an error is logged and the task goes on
TaskPersistFired(id) ==
    /\ TaskAt(id, "persistFired")
    /\ LET next == IF logOn THEN "logFired" ELSE AfterFired(id)
       IN  \/ UpsertOk(tasks[id].snap) /\ UNCHANGED faults /\ TaskStep(id, next)
           \/ Fault /\ UNCHANGED store /\ TaskErr(id, next)
    /\ UNCHANGED <<pool, kernel, timers, lock, cmdlog, logOn, events, calls,
                   hist, changes>>
    /\ UNCHANGED <<evars, uvars, wvars>>

\* lines 753-767: the Fire record carries the ids, not the timer
TaskLogFired(id) ==
    /\ TaskAt(id, "logFired")
    /\ \/ /\ AppendOk("fire", tasks[id].snap.tenant_id, id, NoSnap)
          /\ UNCHANGED faults
          /\ TaskStep(id, AfterFired(id))
       \/ Fault /\ UNCHANGED cmdlog /\ TaskErr(id, AfterFired(id))
    /\ UNCHANGED <<pool, kernel, timers, lock, store, logOn, events, calls,
                   hist, changes>>
    /\ UNCHANGED <<evars, uvars, wvars>>

\* lines 795-807.  The jitter sample of lines 769-782 comes before it; it
\* touches neither the index nor the store, the log or the channel.
TaskSettle(id) ==
    /\ TaskAt(id, "settle")
    /\ lock = "free"
    /\ IF id \notin DOMAIN timers \/ IsTerminal(timers[id])
       THEN /\ TaskStep(id, "done")
            /\ UNCHANGED <<timers, hist>>
       ELSE /\ timers' = [timers EXCEPT ![id] = Transition(@, "Settled")]
            /\ hist' = [hist EXCEPT ![id] = Append(@, "Settled")]
            /\ tasks' = [tasks EXCEPT ![id].pc = "persistSettled",
                                      ![id].snap = timers'[id]]
            /\ UNCHANGED leader
    /\ UNCHANGED <<pool, kernel, lock, store, cmdlog, logOn, events, calls,
                   faults, changes>>
    /\ UNCHANGED <<evars, uvars, wvars>>

\* lines 809-811
TaskPersistSettled(id) ==
    /\ TaskAt(id, "persistSettled")
    /\ \/ UpsertOk(tasks[id].snap) /\ UNCHANGED faults /\ TaskStep(id, "emitSettled")
       \/ Fault /\ UNCHANGED store /\ TaskErr(id, "emitSettled")
    /\ UNCHANGED <<pool, kernel, timers, lock, cmdlog, logOn, events, calls,
                   hist, changes>>
    /\ UNCHANGED <<evars, uvars, wvars>>

\* line 812
TaskEmitSettled(id) ==
    /\ TaskAt(id, "emitSettled")
    /\ Broadcast("Settled", tasks[id].snap, "none")
    /\ TaskStep(id, IF logOn THEN "logSettled" ELSE "done")
    /\ UNCHANGED <<pool, kernel, timers, lock, store, cmdlog, logOn, calls,
                   hist, faults, changes>>
    /\ UNCHANGED <<evars, uvars, wvars>>

\* lines 813-817
TaskLogSettled(id) ==
    /\ TaskAt(id, "logSettled")
    /\ \/ /\ AppendOk("settle", tasks[id].snap.tenant_id, id, tasks[id].snap)
          /\ UNCHANGED faults
          /\ TaskStep(id, "done")
       \/ Fault /\ UNCHANGED cmdlog /\ TaskErr(id, "done")
    /\ UNCHANGED <<pool, kernel, timers, lock, store, logOn, events, calls,
                   hist, changes>>
    /\ UNCHANGED <<evars, uvars, wvars>>

Next ==
    \/ Restore
    \/ SetLeader
    \/ \E c \in 1..MaxCalls :
         \/ ScheduleBegin(c) \/ ScheduleInsert(c) \/ SchedulePersist(c)
         \/ ScheduleLog(c) \/ ScheduleEmit(c)
         \/ CancelBegin(c) \/ CancelLock(c) \/ CancelEmit(c)
         \/ CancelPersist(c) \/ CancelLog(c)
    \/ \E id \in TimerIds :
         \/ TaskStart(id) \/ TaskArm(id) \/ TaskArmPersist(id) \/ TaskSleep(id)
         \/ TaskFire(id) \/ TaskEmitFired(id) \/ TaskPersistFired(id)
         \/ TaskLogFired(id) \/ TaskSettle(id) \/ TaskPersistSettled(id)
         \/ TaskEmitSettled(id) \/ TaskLogSettled(id)

Spec == Init /\ [][Next]_vars

\* restore runs inside the constructor, and the runtime polls every spawned
\* fire task that can go on: its sleep ends, the index lock is released, the
\* store and the command log answer.  No fairness is asked of callers, of the
\* leader handle's supervisor or of faults.
KernelFairness ==
    /\ WF_vars(Restore)
    /\ \A id \in TimerIds :
         /\ WF_vars(TaskStart(id)) /\ WF_vars(TaskArm(id))
         /\ WF_vars(TaskArmPersist(id)) /\ WF_vars(TaskSleep(id))
         /\ WF_vars(TaskFire(id)) /\ WF_vars(TaskEmitFired(id))
         /\ WF_vars(TaskPersistFired(id)) /\ WF_vars(TaskLogFired(id))
         /\ WF_vars(TaskSettle(id)) /\ WF_vars(TaskPersistSettled(id))
         /\ WF_vars(TaskEmitSettled(id)) /\ WF_vars(TaskLogSettled(id))

SpecFair == Spec /\ KernelFairness

\* A kernel constructed over a store that holds two timers, each as a previous
\* run left it, and used by no caller: restore and the fire tasks it spawns.
InitRestart ==
    /\ store \in {Put(Put(EmptyMap, "id-1", r1), "id-2", r2) :
                     r1 \in StoredRows("id-1"), r2 \in StoredRows("id-2")}
    /\ pool = {}
    /\ kernel = "new"
    /\ timers = EmptyMap
    /\ lock = "free"
    /\ cmdlog = [id \in TimerIds |-> <<>>]
    /\ logOn \in BOOLEAN
    /\ events = [id \in TimerIds |-> <<>>]
    /\ leader \in {NewLeaderHandle(FALSE, FALSE)}
                   \cup {NewLeaderHandle(TRUE, b) : b \in BOOLEAN}
    /\ tasks = EmptyMap
    /\ calls = [c \in 1..MaxCalls |-> IdleCall]
    /\ hist = EmptyMap
    /\ faults = 0
    /\ changes = 0
    /\ CoordInit
    /\ UnitsIdle

NextRestart ==
    \/ Restore
    \/ SetLeader
    \/ \E id \in TimerIds :
         \/ TaskStart(id) \/ TaskArm(id) \/ TaskArmPersist(id) \/ TaskSleep(id)
         \/ TaskFire(id) \/ TaskEmitFired(id) \/ TaskPersistFired(id)
         \/ TaskLogFired(id) \/ TaskSettle(id) \/ TaskPersistSettled(id)
         \/ TaskEmitSettled(id) \/ TaskLogSettled(id)

SpecRestart == InitRestart /\ [][NextRestart]_vars

SpecRestartFair == SpecRestart /\ KernelFairness

\* ======================================================================
\* PostgresRaftCoordinator (replication/mod.rs): two nodes and the one row of
\* kernel_raft_state.  Every statement sent to the database is its own step,
\* and so is the code that runs between two awaits of a loop.
\* ======================================================================

\* bin/kernel.rs starts the coordinator before it builds the kernel: while
\* the coordinators run here no kernel has been constructed.
KernelUnbuilt ==
    /\ pool = {}
    /\ kernel = "new"
    /\ timers = EmptyMap
    /\ lock = "free"
    /\ store = EmptyMap
    /\ cmdlog = [id \in TimerIds |-> <<>>]
    /\ logOn = FALSE
    /\ events = [id \in TimerIds |-> <<>>]
    /\ leader = NewLeaderHandle(TRUE, FALSE)
    /\ tasks = EmptyMap
    /\ calls = [c \in 1..MaxCalls |-> IdleCall]
    /\ hist = EmptyMap
    /\ faults = 0
    /\ changes = 0

\* time passes: every heartbeat_at, in the table or read from it, is older
Age(r) == IF r = NoRow \/ r.age = MaxAge THEN r ELSE [r EXCEPT !.age = @ + 1]

Tick ==
    /\ leader_row' = Age(leader_row)
    /\ coord' = [n \in Nodes |-> [coord[n] EXCEPT !.seen = Age(@)]]
    /\ UNCHANGED <<dberrs, kvars, uvars, wvars>>

\* a statement returns Err
DbError == dberrs < MaxDbErrors /\ dberrs' = dberrs + 1

\* the election round holds the is_leader mutex from line 240 to its return
Held(n) == coord[n].el \in {"insert", "refresh", "takeover", "reply", "set"}

\* what the loop does after the round: it sleeps, or line 131 finds the stop
\* flag set and the task ends
AfterRound(n) == IF coord[n].up THEN "idle" ELSE "ending"

PeerAlwaysHealthy(s) == TRUE

\* line 273: now - heartbeat_at < timeout
PeerHealthy(s) == s.age < ElectionTimeout

\* line 257: now - heartbeat_at > timeout
OwnHeartbeatStale(s) == s.age > ElectionTimeout

TakeoverAlwaysApplies(allow_current) == leader_row # NoRow

\* takeover's WHERE clause: id = TRUE AND ($3 OR heartbeat_at < NOW() - $4)
TakeoverApplies(allow_current) ==
    leader_row # NoRow /\ (allow_current \/ leader_row.age > ElectionTimeout)

\* takeover's UPDATE as the database executes it
Takeover(n, term, allow_current) ==
    IF TakeoverApplies(allow_current)
    THEN [leader_id |-> n, term |-> term, age |-> 0]
    ELSE leader_row

\* INSERT ... VALUES (TRUE, $1, 1, NOW()) ON CONFLICT (id) DO NOTHING
InsertRow(n) ==
    IF leader_row = NoRow THEN [leader_id |-> n, term |-> 1, age |-> 0] ELSE leader_row

\* send_heartbeat's UPDATE ... WHERE id = TRUE AND leader_id = $1
HeartbeatRow(n) ==
    IF leader_row # NoRow /\ leader_row.leader_id = n
    THEN [leader_row EXCEPT !.age = 0]
    ELSE leader_row

\* lines 131-161 and 229-238: the sleep ends and the round's SELECT runs.  A
\* round starts only while the row's term is below MaxTerm.
ElectionSelect(n) ==
    /\ coord[n].up /\ coord[n].el = "idle"
    /\ leader_row.term < MaxTerm
    /\ \/ /\ coord' = [coord EXCEPT ![n].el = "fetched", ![n].seen = leader_row]
          /\ UNCHANGED dberrs
       \/ DbError /\ UNCHANGED coord
    /\ UNCHANGED <<leader_row, kvars, uvars, wvars>>

\* lines 240-285: now is read, the mutex is taken and the row that was read
\* decides the round.  The two branches that send no statement set the mutex
\* value here and the handle in the next step.
ElectionDecide(n) ==
    LET me == coord[n]
        s == me.seen
        next == IF s = NoRow THEN [me EXCEPT !.el = "insert"]
                ELSE IF s.leader_id = n
                THEN IF OwnHeartbeatStale(s)
                     THEN [me EXCEPT !.el = "refresh", !.term = s.term + 1]
                     ELSE [me EXCEPT !.el = "set", !.guard = TRUE, !.res = TRUE]
                ELSE IF PeerHealthy(s)
                THEN [me EXCEPT !.el = "set", !.guard = FALSE, !.res = FALSE]
                ELSE [me EXCEPT !.el = "takeover", !.term = s.term + 1]
    IN  /\ me.el = "fetched"
        /\ coord' = [coord EXCEPT ![n] = [next EXCEPT !.seen = NoRow]]
        /\ UNCHANGED <<leader_row, dberrs, kvars, uvars, wvars>>

\* The database executes the round's INSERT or UPDATE, or the statement
\* fails and `?` ends the round with the mutex value and the handle as they
\* were.  The result of the refresh of line 259 is not looked at.  A
\* statement whose task was aborted by shutdown may still be executed.
ElectionExec(n) ==
    LET me == coord[n] IN
    /\ me.el \in {"insert", "refresh", "takeover"}
    /\ \/ /\ leader_row' = CASE me.el = "insert" -> InsertRow(n)
                             [] me.el = "refresh" -> Takeover(n, me.term, TRUE)
                             [] me.el = "takeover" -> Takeover(n, me.term, FALSE)
          /\ coord' = [coord EXCEPT ![n] =
                [me EXCEPT !.term = 0,
                           !.el = IF me.up THEN "reply" ELSE "stopped",
                           !.res = /\ me.up
                                   /\ CASE me.el = "insert" -> leader_row = NoRow
                                        [] me.el = "refresh" -> TRUE
                                        [] me.el = "takeover" -> TakeoverApplies(FALSE)]]
          /\ UNCHANGED dberrs
       \/ /\ DbError
          /\ coord' = [coord EXCEPT ![n].term = 0, ![n].el = AfterRound(n)]
          /\ UNCHANGED leader_row
    /\ UNCHANGED <<kvars, uvars, wvars>>

\* the statement's result arrives: *guard = true or *guard = false
ElectionReply(n) ==
    /\ coord[n].el = "reply"
    /\ coord' = [coord EXCEPT ![n].guard = coord[n].res, ![n].el = "set"]
    /\ UNCHANGED <<leader_row, dberrs, kvars, uvars, wvars>>

\* leader_handle.set_leader(..), the round returns and the loop goes on
ElectionSetLeader(n) ==
    /\ coord[n].el = "set"
    /\ coord' = [coord EXCEPT ![n].handle = coord[n].res, ![n].res = FALSE,
                              ![n].el = AfterRound(n)]
    /\ UNCHANGED <<leader_row, dberrs, kvars, uvars, wvars>>

\* The election task has left its loop after shutdown: its future is dropped
\* and with it leader_for_election, whose Drop stores false
\* (leadership.rs 38-47).
ElectionEnd(n) ==
    /\ coord[n].el = "ending"
    /\ coord' = [coord EXCEPT ![n].handle = FALSE, ![n].el = "stopped"]
    /\ UNCHANGED <<leader_row, dberrs, kvars, uvars, wvars>>

\* lines 77-96: a tick of the heartbeat interval; the loop reads the mutex
\* value and goes on only when it is true
HeartbeatTick(n) ==
    /\ coord[n].up /\ coord[n].hb = "idle"
    /\ ~Held(n)
    /\ coord[n].guard
    /\ coord' = [coord EXCEPT ![n].hb = "send"]
    /\ UNCHANGED <<leader_row, dberrs, kvars, uvars, wvars>>

\* lines 104-108: send_heartbeat returns Ok whatever the number of rows the
\* UPDATE changed, or the statement fails
HeartbeatExec(n) ==
    /\ coord[n].hb = "send"
    /\ \/ /\ leader_row' = HeartbeatRow(n)
          /\ coord' = [coord EXCEPT ![n].hb = IF coord[n].up THEN "idle" ELSE "stopped"]
          /\ UNCHANGED dberrs
       \/ /\ DbError
          /\ coord' = [coord EXCEPT ![n].hb = IF coord[n].up THEN "failed" ELSE "stopped"]
          /\ UNCHANGED leader_row
    /\ UNCHANGED <<kvars, uvars, wvars>>

\* lines 109-124: after a failed heartbeat the loop takes the mutex and steps
\* down
HeartbeatStepDown(n) ==
    /\ coord[n].hb = "failed"
    /\ ~Held(n)
    /\ coord' = [coord EXCEPT ![n].guard = FALSE, ![n].handle = FALSE, ![n].hb = "idle"]
    /\ UNCHANGED <<leader_row, dberrs, kvars, uvars, wvars>>

\* PostgresRaftCoordinator::shutdown: the stop flag, abort of both tasks,
\* set_leader(false).  A task waiting at an await is gone; a statement it had
\* sent may still be executed; a task that is running between two awaits
\* (el = "set") runs on to its next await.
Shutdown(n) ==
    LET me == coord[n] IN
    /\ me.up
    /\ coord' = [coord EXCEPT ![n] =
          [me EXCEPT !.up = FALSE,
                     !.handle = FALSE,
                     !.seen = NoRow,
                     !.el = IF me.el \in {"idle", "fetched", "reply"} THEN "stopped" ELSE @,
                     !.res = IF me.el = "set" THEN @ ELSE FALSE,
                     !.hb = IF me.hb \in {"idle", "failed"} THEN "stopped" ELSE @]]
    /\ UNCHANGED <<leader_row, dberrs, kvars, uvars, wvars>>

CoordNext ==
    \/ Tick
    \/ \E n \in Nodes :
         \/ ElectionSelect(n) \/ ElectionDecide(n) \/ ElectionExec(n)
         \/ ElectionReply(n) \/ ElectionSetLeader(n) \/ ElectionEnd(n)
         \/ HeartbeatTick(n) \/ HeartbeatExec(n) \/ HeartbeatStepDown(n)
         \/ Shutdown(n)

InitElection == CoordInit /\ KernelUnbuilt /\ UnitsIdle

SpecElection == InitElection /\ [][CoordNext]_vars

\* The runtime polls every task that can go on, the database executes every
\* statement it was sent, and time passes.  No fairness is asked of the
\* heartbeat loop or of shutdown.
CoordFairness ==
    /\ WF_vars(Tick)
    /\ \A n \in Nodes :
         /\ WF_vars(ElectionSelect(n)) /\ WF_vars(ElectionDecide(n))
         /\ WF_vars(ElectionExec(n)) /\ WF_vars(ElectionReply(n))
         /\ WF_vars(ElectionSetLeader(n)) /\ WF_vars(ElectionEnd(n))

SpecElectionFair == SpecElection /\ CoordFairness

\* The table outlives the nodes: the two nodes start over a row left by a node
\* that led with term 1 and is gone, its heartbeat long stale.
DepartedRow == [leader_id |-> "node-0", term |-> 1, age |-> MaxAge]

InitSuccession ==
    /\ leader_row = DepartedRow
    /\ coord = [n \in Nodes |-> NewCoordinator]
    /\ dberrs = 0
    /\ KernelUnbuilt
    /\ UnitsIdle

SpecSuccession == InitSuccession /\ [][CoordNext]_vars

\* ======================================================================
\* EventSigner (lib.rs 258-374): one signer signs an event, the envelope may
\* be altered in one field on its way, and the same signer verifies it.
\* ======================================================================
Secrets == {"secret-a", "secret-b"}

EnvelopeIds == {"env-1", "env-2"}

TraceIds == {"null", "trace-1"}

\* Utc::now() in microseconds
Instants == {1000, 1999, 2000}

\* TimerEvent: Cancelled carries a reason next to the timer
TimerEvents ==
    {[type |-> ty, timer |-> t, reason |-> "none"] :
        ty \in {"scheduled", "fired", "settled"},
        t \in {NewTimer("id-1", tn) : tn \in Tenants}}
    \cup {[type |-> "cancelled", timer |-> Transition(NewTimer("id-1", "ta"), "Cancelled"),
            reason |-> r] : r \in {"none", "manual"}}

\* to_rfc3339_opts(SecondsFormat::Millis, true): what is below a millisecond
\* is dropped
Rfc3339Millis(us) == ToString(us \div 1000) \o "Z"

\* signing_bytes: the JSON object of the seven keys, canonicalized (keys
\* sorted at every level) and serialized.  A record is equal to another
\* whatever order its fields are written in, as the canonical bytes are.
SigningBytes(envelope_id, tenant_id, occurred_at_iso, dedupe_key, trace_id, event) ==
    [envelope_id |-> envelope_id, tenant_id |-> tenant_id,
     occurred_at_iso |-> occurred_at_iso, dedupe_key |-> dedupe_key,
     trace_id |-> trace_id, event_type |-> event.type, event |-> event]

\* HMAC-SHA256: two tags are equal only for the same key and the same bytes
Hmac(secret, bytes) == <<secret, bytes>>

HexEncodeUnpadded(mac) == [mac |-> mac, text |-> "odd"]

\* hex::encode writes lower-case digits
HexEncode(mac) == [mac |-> mac, text |-> "lower"]

\* hex::decode reads lower-case and upper-case digits and fails on any other
\* text
HexDecode(s) ==
    IF s.text \in {"lower", "upper"}
    THEN [ok |-> TRUE, mac |-> s.mac]
    ELSE [ok |-> FALSE, mac |-> <<>>]

\* sign_event_with_trace and finish, given what Uuid::new_v4 and Utc::now
\* return
SignEventWithTrace(secret, event, trace_id, envelope_id, now) ==
    LET tenant_id == event.timer.tenant_id
        occurred_at_iso == Rfc3339Millis(now)
        dedupe_key == DedupeKey(tenant_id, event.timer.id, event.timer.state_version)
        bytes == SigningBytes(envelope_id, tenant_id, occurred_at_iso, dedupe_key,
                              trace_id, event)
    IN  [envelope_id |-> envelope_id, tenant_id |-> tenant_id,
         occurred_at_iso |-> occurred_at_iso, dedupe_key |-> dedupe_key,
         trace_id |-> trace_id, signature |-> HexEncode(Hmac(secret, bytes)),
         signature_version |-> "v1-hmac-sha256", event |-> event]

\* verify: "Err" stands for the Err of an undecodable signature
Verify(secret, envelope) ==
    LET bytes == SigningBytes(envelope.envelope_id, envelope.tenant_id,
                              envelope.occurred_at_iso, envelope.dedupe_key,
                              envelope.trace_id, envelope.event)
        provided == HexDecode(envelope.signature)
    IN  IF ~provided.ok THEN "Err"
        ELSE IF provided.mac = Hmac(secret, bytes) THEN "true" ELSE "false"

SignerSign ==
    /\ signing.pc = "idle"
    /\ \E secret \in Secrets, event \in TimerEvents, trace_id \in TraceIds,
          envelope_id \in EnvelopeIds, now \in Instants :
          signing' = [signing EXCEPT
                         !.pc = "signed", !.secret = secret,
                         !.envelope = SignEventWithTrace(secret, event, trace_id,
                                                         envelope_id, now)]
    /\ UNCHANGED <<kvars, evars, jitter, wvars>>

\* the values a field of an envelope in transit can be given
Alterations(e) ==
    [envelope_id |-> EnvelopeIds,
     tenant_id |-> Tenants,
     occurred_at_iso |-> {Rfc3339Millis(us) : us \in Instants},
     dedupe_key |-> {DedupeKey(e.tenant_id, e.event.timer.id, v) : v \in 0..1},
     trace_id |-> TraceIds,
     signature |-> {[e.signature EXCEPT !.text = x] : x \in {"upper", "odd"}}
                      \cup {HexEncode(Hmac(k, e.signature.mac[2])) : k \in Secrets},
     signature_version |-> {"v1-hmac-sha256", "v0"},
     event_type |-> {[e.event EXCEPT !.type = ty] :
                        ty \in {"scheduled", "fired", "cancelled", "settled"}},
     event_payload |-> {[e.event EXCEPT !.timer.state_version = v] : v \in 0..1}
                          \cup {[e.event EXCEPT !.reason = r] : r \in {"none", "manual"}}]

AlterableFields ==
    {"envelope_id", "tenant_id", "occurred_at_iso", "dedupe_key", "trace_id",
     "signature", "signature_version", "event_type", "event_payload"}

\* one field of the envelope gets another value before the envelope is verified
Alter ==
    /\ signing.pc = "signed"
    /\ \E field \in AlterableFields :
          LET e == signing.envelope
              key == IF field \in {"event_type", "event_payload"} THEN "event" ELSE field
          IN  \E value \in Alterations(e)[field] \ {e[key]} :
                signing' = [signing EXCEPT !.pc = "altered", !.field = field,
                                           !.envelope = [e EXCEPT ![key] = value]]
    /\ UNCHANGED <<kvars, evars, jitter, wvars>>

SignerVerify ==
    /\ signing.pc \in {"signed", "altered"}
    /\ signing' = [signing EXCEPT !.pc = "verified",
                                  !.verdict = Verify(signing.secret, signing.envelope)]
    /\ UNCHANGED <<kvars, evars, jitter, wvars>>

SignerNext == SignerSign \/ Alter \/ SignerVerify

InitSigner == CoordInit /\ KernelUnbuilt /\ UnitsIdle

SpecSigner == InitSigner /\ [][SignerNext]_vars

\* ======================================================================
\* telemetry::JitterMonitor (telemetry/jitter.rs): samples are recorded into
\* the window, then adjust_fire_at is asked for one fire time.
\* ======================================================================
MIN_COMPENSATED_LEAD_MS == 5

MAX_COMPENSATION_MS == 500

\* (actual - scheduled).num_milliseconds() of the samples recorded
Deltas == {-600, -80, -1, 0, 1, 80, 600}

Nows == {0, 1000}

\* target - now of the calls of adjust_fire_at
Leads == {-1, 0, 4, 5, 6, 100, 700}

\* f64::round of sum / n: to the nearest integer, halves away from zero
Round(sum, n) ==
    IF sum >= 0 THEN (2 * sum + n) \div (2 * n) ELSE -((2 * (-sum) + n) \div (2 * n))

Clamp(x, low, high) == IF x < low THEN low ELSE IF x > high THEN high ELSE x

\* JitterMonitor::record: push_back, add to the sum, and past the window
\* pop_front and take the expired sample off the sum
Record(st, delta_ms) ==
    LET pushed == Append(st.samples, delta_ms)
        sum == st.sum + delta_ms
    IN  IF Len(pushed) > JitterWindow
        THEN [st EXCEPT !.samples = Tail(pushed), !.sum = sum - Head(pushed)]
        ELSE [st EXCEPT !.samples = pushed, !.sum = sum]

CompensationHintMs(st) ==
    IF st.samples = <<>>
    THEN 0
    ELSE Clamp(Round(st.sum, Len(st.samples)), -MAX_COMPENSATION_MS, MAX_COMPENSATION_MS)

AdjustFireAt(st, now, target) ==
    LET hint == CompensationHintMs(st)
        candidate == target - hint
        minimum == now + MIN_COMPENSATED_LEAD_MS
    IN  IF hint = 0 THEN target
        ELSE IF candidate < minimum THEN minimum ELSE candidate

JitterRecord ==
    /\ ~jitter.asked
    /\ jitter.records < MaxRecords
    /\ \E delta_ms \in Deltas :
          jitter' = [Record(jitter, delta_ms) EXCEPT !.records = @ + 1]
    /\ UNCHANGED <<kvars, evars, signing, wvars>>

JitterAdjust ==
    /\ ~jitter.asked
    /\ \E now \in Nows, lead \in Leads :
          jitter' = [jitter EXCEPT !.asked = TRUE, !.now = now, !.target = now + lead,
                                  !.adjusted = AdjustFireAt(jitter, now, now + lead)]
    /\ UNCHANGED <<kvars, evars, signing, wvars>>

JitterNext == JitterRecord \/ JitterAdjust

InitJitter == CoordInit /\ KernelUnbuilt /\ UnitsIdle

SpecJitter == InitJitter /\ [][JitterNext]_vars

\* ======================================================================
\* RaftSupervisor (replication/mod.rs 544-706): one supervisor, the metrics
\* channel of its Raft node and the task that copies leadership to the handle.
\* ======================================================================

\* Option<NodeId> of RaftMetrics.current_leader (0 is None) and ServerState
MetricsValues ==
    [current_leader : {0, RaftNodeId, RaftPeerId},
     state : {"Learner", "Follower", "Candidate", "Leader"}]

IsRaftLeaderByIdOnly(snapshot) == snapshot.current_leader = RaftNodeId

\* lines 690-691
IsRaftLeader(snapshot) ==
    snapshot.current_leader = RaftNodeId /\ snapshot.state = "Leader"

\* the Raft node publishes new metrics; a watch channel keeps the last value
RaftMetricsUpdate ==
    /\ raft.running
    /\ \E m \in MetricsValues : raft' = [raft EXCEPT !.metrics = m, !.unseen = TRUE]
    /\ UNCHANGED <<kvars, evars, uvars, gvars>>

\* lines 684-703: changed() returns, the task reads the channel and calls
\* set_leader when the value differs from last_leader
MetricsTaskStep ==
    LET snapshot == raft.metrics
        is_leader == IsRaftLeader(snapshot)
    IN  /\ raft.task = "waiting" /\ raft.unseen
        /\ raft' = [raft EXCEPT !.unseen = FALSE,
                                !.snapshot = snapshot,
                                !.handle = IF is_leader # raft.last THEN is_leader ELSE @,
                                !.last = is_leader]
        /\ UNCHANGED <<kvars, evars, uvars, gvars>>

\* a holder of a clone of the handle drops it, as a fire task of the kernel
\* does when it returns: Drop stores false
RaftHandleDrop ==
    /\ raft.running /\ ~raft.dropped
    /\ raft' = [raft EXCEPT !.handle = FALSE, !.dropped = TRUE]
    /\ UNCHANGED <<kvars, evars, uvars, gvars>>

\* RaftSupervisor::shutdown, lines 651-657: set_leader(false), and the Raft
\* node is told to stop
RaftShutdown ==
    /\ raft.running
    /\ raft' = [raft EXCEPT !.running = FALSE, !.handle = FALSE]
    /\ UNCHANGED <<kvars, evars, uvars, gvars>>

\* the metrics task ends: changed() returns Err once the node has stopped
\* (lines 684-687), or the abort of line 661 drops the task with its clone
MetricsTaskEnd ==
    /\ ~raft.running /\ raft.task = "waiting"
    /\ raft' = [raft EXCEPT !.task = "ended", !.handle = FALSE, !.unseen = FALSE]
    /\ UNCHANGED <<kvars, evars, uvars, gvars>>

RaftNext ==
    \/ RaftMetricsUpdate \/ MetricsTaskStep \/ RaftHandleDrop
    \/ RaftShutdown \/ MetricsTaskEnd

InitRaft == CoordInit /\ KernelUnbuilt /\ UnitsIdle

SpecRaft == InitRaft /\ [][RaftNext]_vars

\* ======================================================================
\* TemporalGraphExecutor (temporal_graph.rs): register_root and
\* record_completion called with graphs and node ids from small sets.  Each
\* call runs under the executor's write lock, so it is one step.
\* ======================================================================
GraphNodeNames == {"root", "a", "b"}

\* TemporalGraphNode.after, as the set of the ids it names
AfterLists == {{}, {"root"}, {"root", "a"}}

\* TemporalGraphSpec: the root's id and the nodes, keyed by id as
\* TemporalGraphState::new keys them
GraphSpecs ==
    UNION {[root : {"root"}, nodes : [D -> AfterLists]] : D \in SUBSET GraphNodeNames}

GraphRoots == {"id-1"}

\* TemporalGraphState::new, lines 53-68
NewGraphState(spec, root_node) ==
    [spec |-> spec, scheduled |-> {root_node}, completed |-> {}]

\* register_root, lines 116-121: the nodes with an empty after list
RegisterReady(state) ==
    {id \in DOMAIN state.spec.nodes : state.spec.nodes[id] = {}}

\* mark_completed, lines 70-72
MarkCompleted(state, node_id) == [state EXCEPT !.completed = @ \cup {node_id}]

\* ready_nodes, lines 75-94
ReadyNodes(state) ==
    {id \in DOMAIN state.spec.nodes :
        id \notin state.scheduled /\ state.spec.nodes[id] \subseteq state.completed}

\* remove_if_finished, lines 96-99
RemoveIfFinished(state) ==
    Cardinality(state.completed) >= Cardinality(DOMAIN state.spec.nodes) + 1

\* the map after register_root(root_id, spec, root_node), lines 107-124
AfterRegister(root_id, spec, root_node) ==
    LET state == NewGraphState(spec, root_node)
    IN  Put(graphs, root_id, [state EXCEPT !.scheduled = @ \cup RegisterReady(state)])

\* the Vec that record_completion(root_id, node_id) returns, lines 126-137
CompletionReady(root_id, node_id) ==
    IF root_id \in DOMAIN graphs
    THEN ReadyNodes(MarkCompleted(graphs[root_id], node_id))
    ELSE {}

\* the map after record_completion(root_id, node_id)
AfterCompletion(root_id, node_id) ==
    IF root_id \in DOMAIN graphs
    THEN LET marked == MarkCompleted(graphs[root_id], node_id)
             state == [marked EXCEPT !.scheduled = @ \cup ReadyNodes(marked)]
         IN  IF RemoveIfFinished(state)
             THEN [k \in DOMAIN graphs \ {root_id} |-> graphs[k]]
             ELSE Put(graphs, root_id, state)
    ELSE graphs

\* how often each node was returned, counted up to 2
Given(counts, ready) ==
    [n \in GraphNodeNames |-> IF n \in ready /\ counts[n] < 2 THEN counts[n] + 1 ELSE counts[n]]

\* what the history keeps of a call of register_root
Registered(root_id, spec, root_node) ==
    LET ready == RegisterReady(NewGraphState(spec, root_node))
    IN  [reg |-> Put(ghist.reg, root_id,
                     [spec |-> spec, root_node |-> root_node, completed |-> {},
                      given |-> Given([n \in GraphNodeNames |-> 0], ready)]),
         last |-> [op |-> "register", root_id |-> root_id,
                   known |-> root_id \in DOMAIN graphs, ready |-> ready]]

\* what the history keeps of a call of record_completion
Completed(root_id, node_id) ==
    LET ready == CompletionReady(root_id, node_id)
    IN  [reg |-> IF root_id \in DOMAIN ghist.reg
                 THEN [ghist.reg EXCEPT ![root_id].completed = @ \cup {node_id},
                                        ![root_id].given = Given(@, ready)]
                 ELSE ghist.reg,
         last |-> [op |-> "complete", root_id |-> root_id,
                   known |-> root_id \in DOMAIN graphs, ready |-> ready]]

RegisterRoot(root_id, spec, root_node) ==
    /\ graphs' = AfterRegister(root_id, spec, root_node)
    /\ ghist' = Registered(root_id, spec, root_node)
    /\ UNCHANGED <<kvars, evars, uvars, raft>>

RecordCompletion(root_id, node_id) ==
    /\ graphs' = AfterCompletion(root_id, node_id)
    /\ ghist' = Completed(root_id, node_id)
    /\ UNCHANGED <<kvars, evars, uvars, raft>>

GraphExecNext ==
    \/ \E root_id \in GraphRoots, spec \in GraphSpecs : RegisterRoot(root_id, spec, spec.root)
    \/ \E root_id \in GraphRoots, node_id \in GraphNodeNames : RecordCompletion(root_id, node_id)

InitGraphExec == CoordInit /\ KernelUnbuilt /\ UnitsIdle

SpecGraphExec == InitGraphExec /\ [][GraphExecNext]_vars

\* ======================================================================
\* HorologyKernel with a temporal graph (lib.rs 514-534, 784-793, 823-890):
\* one caller schedules a root timer that carries a graph of one node, and
\* the follow-up timer of the node is scheduled by the call or by the root's
\* fire task.  The loop of spawn_graph_followups then runs once.
\* ======================================================================
GraphInputs ==
    {[root |-> "root", nodes |-> [n \in {"a"} |-> after]] : after \in {{}, {"root"}}}

\* lines 518-521 and 925-928
RootNode(timer) ==
    IF timer.graph_node_id # "" THEN timer.graph_node_id ELSE timer.temporal_graph.root

\* schedule(spec) with spec.temporal_graph = Some(graph), duration_ms = 1
ScheduleGraph(c) ==
    \E graph \in GraphInputs :
        /\ c = 1
        /\ CanBegin(c)
        /\ HasId(1, [some |-> FALSE, ms |-> 0])
        /\ calls' = [calls EXCEPT ![c] =
                       ScheduleTimer(c, "", "ta", 1, [some |-> FALSE, ms |-> 0],
                                     NoContext, graph)]
        /\ pool' = IF calls'[c].pc = "insert" THEN pool \ {FreshId} ELSE pool
        /\ UNCHANGED <<kernel, timers, lock, store, cmdlog, logOn, events, leader,
                       tasks, hist, faults, changes>>
        /\ UNCHANGED <<evars, uvars, wvars>>

\* lines 517-526: register_root
ScheduleRegister(c) ==
    LET timer == calls[c].snap
        ready == RegisterReady(NewGraphState(timer.temporal_graph, RootNode(timer)))
    IN  /\ calls[c].op = "schedule" /\ calls[c].pc = "register"
        /\ graphs' = AfterRegister(timer.id, timer.temporal_graph, RootNode(timer))
        /\ ghist' = Registered(timer.id, timer.temporal_graph, RootNode(timer))
        /\ IF ready = {} THEN Return(c, "Ok") ELSE Goto(c, "followup")
        /\ UNCHANGED <<pool, kernel, timers, lock, store, cmdlog, logOn, events, leader,
                       tasks, hist, faults, changes>>
        /\ UNCHANGED <<evars, uvars, raft>>

\* schedule_graph_node, lines 832-882: the TimerSpec of the follow-up of a
\* node, handed to schedule_timer; its fire_at is now plus an offset of at
\* least 1 ms
FollowUp(d, parent, root, node_id) ==
    ScheduleTimer(d, parent, root.tenant_id, 1, [some |-> TRUE, ms |-> 1],
                  [root_id |-> IF root.graph_root_id # "" THEN root.graph_root_id
                               ELSE root.id,
                   node_id |-> node_id],
                  NoGraph)

\* lines 527-530: spawn_graph_followups called by schedule
ScheduleFollowup(c) ==
    LET timer == calls[c].snap
        ready == RegisterReady(NewGraphState(timer.temporal_graph, RootNode(timer)))
    IN  /\ calls[c].op = "schedule" /\ calls[c].pc = "followup"
        /\ \E d \in 1..MaxCalls :
             /\ CanBegin(d)
             /\ HasId(1, [some |-> TRUE, ms |-> 1])
             /\ calls' = [calls EXCEPT
                            ![c].pc = "awaitFollowup",
                            ![d] = FollowUp(d, "call", timer, CHOOSE n \in ready : TRUE)]
             /\ pool' = IF calls'[d].pc = "insert" THEN pool \ {FreshId} ELSE pool
        /\ UNCHANGED <<kernel, timers, lock, store, cmdlog, logOn, events, leader,
                       tasks, hist, faults, changes>>
        /\ UNCHANGED <<evars, uvars, wvars>>

\* schedule_graph_node returned, whatever its result: schedule returns the timer
ScheduleFollowupDone(c) ==
    /\ calls[c].op = "schedule" /\ calls[c].pc = "awaitFollowup"
    /\ \E d \in 1..MaxCalls : calls[d].parent = "call" /\ calls[d].pc = "done"
    /\ Return(c, "Ok")
    /\ UNCHANGED <<pool, kernel, timers, lock, store, cmdlog, logOn, events, leader,
                   tasks, hist, faults, changes>>
    /\ UNCHANGED <<evars, uvars, wvars>>

\* lines 784-788: record_completion by the fire task
TaskGraph(id) ==
    LET snapshot == tasks[id].snap
        ready == CompletionReady(snapshot.graph_root_id, snapshot.graph_node_id)
    IN  /\ TaskAt(id, "graph")
        /\ graphs' = AfterCompletion(snapshot.graph_root_id, snapshot.graph_node_id)
        /\ ghist' = Completed(snapshot.graph_root_id, snapshot.graph_node_id)
        /\ tasks' = [tasks EXCEPT ![id].pc = IF ready = {} THEN "settle" ELSE "followup",
                                  ![id].ready = ready]
        /\ UNCHANGED <<pool, kernel, timers, lock, store, cmdlog, logOn, events, leader,
                       calls, hist, faults, changes>>
        /\ UNCHANGED <<evars, uvars, raft>>

\* lines 789-792: spawn_graph_followups called by the fire task
TaskFollowup(id) ==
    /\ TaskAt(id, "followup")
    /\ \E d \in 1..MaxCalls :
         /\ CanBegin(d)
         /\ HasId(1, [some |-> TRUE, ms |-> 1])
         /\ calls' = [calls EXCEPT
                        ![d] = FollowUp(d, id, tasks[id].snap,
                                        CHOOSE n \in tasks[id].ready : TRUE)]
         /\ pool' = IF calls'[d].pc = "insert" THEN pool \ {FreshId} ELSE pool
    /\ tasks' = [tasks EXCEPT ![id].pc = "awaitFollowup", ![id].ready = {}]
    /\ UNCHANGED <<kernel, timers, lock, store, cmdlog, logOn, events, leader,
                   hist, faults, changes>>
    /\ UNCHANGED <<evars, uvars, wvars>>

\* schedule_graph_node returned, whatever its result: the task goes on
TaskFollowupDone(id) ==
    /\ TaskAt(id, "awaitFollowup")
    /\ \E d \in 1..MaxCalls : calls[d].parent = id /\ calls[d].pc = "done"
    /\ TaskStep(id, "settle")
    /\ UNCHANGED <<pool, kernel, timers, lock, store, cmdlog, logOn, events, calls,
                   hist, faults, changes>>
    /\ UNCHANGED <<evars, uvars, wvars>>

\* A kernel over an empty store, with or without a command log, whose leader
\* handle, if it has one, reports leader; two Uuids are left.
InitGraph ==
    /\ store = EmptyMap
    /\ pool = TimerIds
    /\ kernel = "new"
    /\ timers = EmptyMap
    /\ lock = "free"
    /\ cmdlog = [id \in TimerIds |-> <<>>]
    /\ logOn \in BOOLEAN
    /\ events = [id \in TimerIds |-> <<>>]
    /\ leader \in {NewLeaderHandle(FALSE, FALSE), NewLeaderHandle(TRUE, TRUE)}
    /\ tasks = EmptyMap
    /\ calls = [c \in 1..MaxCalls |-> IdleCall]
    /\ hist = EmptyMap
    /\ faults = 0
    /\ changes = 0
    /\ CoordInit
    /\ UnitsIdle

NextGraph ==
    \/ Restore
    \/ \E c \in 1..MaxCalls :
         \/ ScheduleGraph(c) \/ ScheduleInsert(c) \/ SchedulePersist(c)
         \/ ScheduleLog(c) \/ ScheduleEmit(c)
         \/ ScheduleRegister(c) \/ ScheduleFollowup(c) \/ ScheduleFollowupDone(c)
    \/ \E id \in TimerIds :
         \/ TaskStart(id) \/ TaskArm(id) \/ TaskArmPersist(id) \/ TaskSleep(id)
         \/ TaskFire(id) \/ TaskEmitFired(id) \/ TaskPersistFired(id)
         \/ TaskLogFired(id) \/ TaskSettle(id) \/ TaskPersistSettled(id)
         \/ TaskEmitSettled(id) \/ TaskLogSettled(id)
         \/ TaskGraph(id) \/ TaskFollowup(id) \/ TaskFollowupDone(id)

SpecGraph == InitGraph /\ [][NextGraph]_vars

\* The runtime polls the future of a schedule call as it polls the fire
\* tasks: every step of a call that has begun is taken; when a caller calls
\* is up to the caller.
GraphFairness ==
    /\ KernelFairness
    /\ \A c \in 1..MaxCalls :
         /\ WF_vars(ScheduleInsert(c)) /\ WF_vars(SchedulePersist(c))
         /\ WF_vars(ScheduleLog(c)) /\ WF_vars(ScheduleEmit(c))
         /\ WF_vars(ScheduleRegister(c)) /\ WF_vars(ScheduleFollowup(c))
         /\ WF_vars(ScheduleFollowupDone(c))
    /\ \A id \in TimerIds :
         /\ WF_vars(TaskGraph(id)) /\ WF_vars(TaskFollowup(id))
         /\ WF_vars(TaskFollowupDone(id))

SpecGraphFair == SpecGraph /\ GraphFairness

\* ======================================================================
\* Properties
\* ======================================================================
TerminalSet == {"Cancelled", "Failed", "Settled"}

AllowedEdges ==
    {<<"Scheduled", "Armed">>, <<"Armed", "Fired">>, <<"Fired", "Settled">>,
     <<"Scheduled", "Cancelled">>, <<"Armed", "Cancelled">>,
     <<"Scheduled", "Failed">>, <<"Armed", "Failed">>, <<"Fired", "Failed">>}

EventTypes(id) == [i \in 1..Len(events[id]) |-> events[id][i].event_type]

IsPrefix(s, t) == Len(s) <= Len(t) /\ \A i \in 1..Len(s) : s[i] = t[i]

\* the cancel calls that found timer id in their critical section
CancelCallsOn(id) ==
    {c \in 1..MaxCalls : calls[c].op = "cancel" /\ calls[c].id = id
                           /\ calls[c].snap # NoSnap}

\* call c runs cancel's critical section in this step
CancelLockStep(c) ==
    calls[c].op = "cancel" /\ calls[c].pc = "lock" /\ calls'[c].pc # "lock"

\* timer id was created by a schedule call on this kernel
ScheduledHere(id) ==
    \E c \in 1..MaxCalls : calls[c].op = "schedule" /\ calls[c].id = id

\* C1: once a timer's status is Cancelled, Failed or Settled, no step of any
\* operation changes its status or its state_version.
C1_TerminalIsFinal ==
    [][\A id \in DOMAIN timers :
         timers[id].status \in TerminalSet =>
             /\ id \in DOMAIN timers'
             /\ timers'[id].status = timers[id].status
             /\ timers'[id].state_version = timers[id].state_version]_vars

\* C1 witness: a cancelled timer on which the fire task has ended and two
\* cancel calls have returned.
C1_Witness ==
    \E id \in DOMAIN timers \cap DOMAIN tasks :
        /\ timers[id].status = "Cancelled"
        /\ tasks[id].pc = "done"
        /\ ~leader.configured
        /\ \A c \in 1..MaxCalls : calls[c].op = "cancel" /\ calls[c].result = "Some"

\* C2 (as claimed): every status change of a timer in the index is one of the
\* allowed edges.
C2_OnlyAllowedEdges ==
    [][\A id \in DOMAIN timers \cap DOMAIN timers' :
         timers'[id].status # timers[id].status =>
             <<timers[id].status, timers'[id].status>> \in AllowedEdges]_vars

\* C3: when cancel moved a timer from Scheduled or Armed to Cancelled, no Fired
\* and no Settled envelope is ever emitted for it, and the fire task makes no
\* transition after the cancel.
C3_CancelBeatsFire ==
    \A id \in DOMAIN hist :
        (\E i \in 2..Len(hist[id]) :
            hist[id][i] = "Cancelled" /\ hist[id][i - 1] \in {"Scheduled", "Armed"})
        => /\ \A i \in 1..Len(events[id]) :
                events[id][i].event_type \notin {"Fired", "Settled"}
           /\ hist[id][Len(hist[id])] = "Cancelled"
           /\ timers[id].status = "Cancelled"

\* C3 witness: a timer cancelled while Armed whose fire task, on a kernel with
\* no leader handle, has run to its end.
C3_Witness ==
    /\ ~leader.configured
    /\ \E id \in DOMAIN tasks :
        /\ hist[id] = <<"Scheduled", "Armed", "Cancelled">>
        /\ tasks[id].pc = "done"

\* C4 (as claimed): for a timer scheduled on this kernel, the envelope sequence
\* is a prefix of Scheduled, Cancelled or of Scheduled, Fired, Settled.
C4_EnvelopeSequence ==
    \A id \in TimerIds :
        ScheduledHere(id) =>
            \/ IsPrefix(EventTypes(id), <<"Scheduled", "Cancelled">>)
            \/ IsPrefix(EventTypes(id), <<"Scheduled", "Fired", "Settled">>)

\* C5 (as claimed): envelopes of one timer are offered to the channel in
\* strictly increasing state_version order.
C5_VersionsIncrease ==
    \A id \in TimerIds :
        \A i, j \in 1..Len(events[id]) :
            i < j => events[id][i].timer.state_version
                        < events[id][j].timer.state_version

\* C6: every envelope's dedupe key is timer:<tenant_id>:<id>:<state_version>
\* of the snapshot it wraps, and no two envelopes have the same dedupe key.
C6_DedupeKeys ==
    /\ \A id \in TimerIds : \A i \in 1..Len(events[id]) :
          LET e == events[id][i] IN
          /\ e.tenant_id = e.timer.tenant_id
          /\ e.dedupe_key = "timer:" \o e.timer.tenant_id \o ":" \o e.timer.id
                               \o ":" \o ToString(e.timer.state_version)
    /\ \A id1, id2 \in TimerIds :
          \A i \in 1..Len(events[id1]), j \in 1..Len(events[id2]) :
              (id1 # id2 \/ i # j) =>
                  events[id1][i].dedupe_key # events[id2][j].dedupe_key

\* C6 witness: a timer with a Scheduled, a Fired and a Cancelled envelope.
C6_Witness ==
    \E id \in TimerIds :
        {"Scheduled", "Fired", "Cancelled"}
            \subseteq {events[id][i].event_type : i \in 1..Len(events[id])}

\* C7: a status change increments state_version by exactly 1, state_version
\* changes at no other time, and it equals the number of status changes the
\* timer has undergone.
C7_VersionCountsChanges ==
    [][/\ \A id \in DOMAIN timers \cap DOMAIN timers' :
            /\ timers'[id].status # timers[id].status
                  => timers'[id].state_version = timers[id].state_version + 1
            /\ timers'[id].state_version # timers[id].state_version
                  => timers'[id].status # timers[id].status
       /\ \A id \in (DOMAIN timers') \ (DOMAIN timers) :
            kernel = "running" => timers'[id].state_version = 0
       /\ \A id \in DOMAIN timers' :
            timers'[id].state_version = Len(hist'[id]) - 1]_vars

\* C7 witness: a timer scheduled here that went through three status changes.
C7_Witness ==
    \E id \in DOMAIN timers :
        /\ ScheduledHere(id)
        /\ timers[id].status = "Settled"
        /\ timers[id].state_version = 3

\* C8: every cancel call that finds the timer returns the timer's terminal
\* state as the first cancel left it, later calls change nothing, and at most
\* one Cancelled envelope (and Cancel record, and Cancelled transition) exists.
C8_CancelIdempotent ==
    \A id \in TimerIds :
        /\ \A c \in CancelCallsOn(id) :
              /\ calls[c].snap.status \in TerminalSet
              /\ calls[c].snap = timers[id]
        /\ Cardinality({i \in 1..Len(events[id]) :
                           events[id][i].event_type = "Cancelled"}) <= 1
        /\ Cardinality({i \in 1..Len(cmdlog[id]) :
                           cmdlog[id][i].command = "cancel"}) <= 1
        /\ id \in DOMAIN hist =>
              Cardinality({i \in 1..Len(hist[id]) : hist[id][i] = "Cancelled"}) <= 1

\* C8 witness: two cancel calls on one timer have both returned its Cancelled
\* snapshot.
C8_Witness ==
    \E c1, c2 \in 1..MaxCalls :
        /\ c1 # c2
        /\ calls[c1].op = "cancel" /\ calls[c2].op = "cancel"
        /\ calls[c1].result = "Some" /\ calls[c2].result = "Some"
        /\ calls[c1].id = calls[c2].id
        /\ calls[c1].snap.status = "Cancelled"

\* C9 (as claimed): cancel on a timer whose status is Fired changes nothing and
\* returns at once, so it writes nothing and emits nothing.
C9_CancelAfterFiredNoOp ==
    [][\A c \in 1..MaxCalls :
         (/\ CancelLockStep(c)
          /\ calls[c].id \in DOMAIN timers
          /\ timers[calls[c].id].tenant_id = calls[c].tenant_id
          /\ timers[calls[c].id].status = "Fired")
         => (timers' = timers /\ calls'[c].pc = "done")]_vars

\* C10: a schedule or cancel call made while a configured leader handle reports
\* follower returns NotLeader and leaves the index, the store, the command
\* log, the event channel and the set of fire tasks unchanged.
C10_LeaderGating ==
    [][\A c \in 1..MaxCalls :
         (/\ calls[c].pc = "idle" /\ calls'[c].pc # "idle"
          /\ leader.configured /\ ~leader.is_leader)
         => /\ calls'[c].pc = "done" /\ calls'[c].result = "NotLeader"
            /\ UNCHANGED <<timers, store, cmdlog, events, tasks, pool>>]_vars

\* C10 witness: a schedule call and a cancel call have both returned NotLeader.
C10_Witness ==
    \E c1, c2 \in 1..MaxCalls :
        /\ calls[c1].op = "schedule" /\ calls[c1].result = "NotLeader"
        /\ calls[c2].op = "cancel" /\ calls[c2].result = "NotLeader"

\* C11: a fire task that finds a configured handle reporting follower, at its
\* first step or at the re-check after the sleep, ends on that step; the step
\* changes neither the index, the store, the command log nor the channel, and
\* a task that has ended takes no further step.
C11_FollowerTaskExits ==
    [][\A id \in TimerIds :
         /\ (/\ id \in DOMAIN tasks /\ tasks[id].pc \in {"start", "sleep"}
             /\ leader.configured /\ ~leader.is_leader
             /\ tasks'[id] # tasks[id])
            => /\ tasks'[id].pc = "done"
               /\ UNCHANGED <<timers, store, cmdlog, events, hist>>
         /\ (id \in DOMAIN tasks /\ tasks[id].pc = "done")
            => tasks'[id] = tasks[id]]_vars

\* C11 witness: a timer scheduled on this node was armed by its task, and the
\* task has ended at the re-check after the sleep; the timer is still Armed
\* with state_version 1 and no envelope after Scheduled was offered for it.
C11_Witness ==
    \E id \in DOMAIN tasks :
        /\ tasks[id].pc = "done"
        /\ leader.configured /\ ~leader.is_leader
        /\ hist[id] = <<"Scheduled", "Armed">>
        /\ timers[id].status = "Armed" /\ timers[id].state_version = 1
        /\ EventTypes(id) = <<"Scheduled">>

\* a node whose coordinator was shut down, with no statement of its still to
\* be executed
Stopped(n) == ~coord[n].up /\ coord[n].el = "stopped" /\ coord[n].hb = "stopped"

\* C12 (as claimed): of two running nodes that share the leader row, never do
\* the leader handles of both report is_leader() = true.
C12_OnlyOneLeader ==
    \A a, b \in Nodes :
        (a # b /\ coord[a].up /\ coord[b].up)
            => ~(coord[a].handle /\ coord[b].handle)

\* C13: once the row names a node that has stopped, a node that keeps
\* running sees its handle report leader some time later (as long as the
\* row's term is below the bound of the model).
C13_FailoverLiveness ==
    \A n \in Nodes :
        (/\ leader_row # NoRow /\ leader_row.leader_id # n
         /\ Stopped(leader_row.leader_id)
         /\ leader_row.term < MaxTerm
         /\ coord[n].up)
            ~> (coord[n].handle \/ ~coord[n].up)

\* C13 witness: the node that led with term 1 was shut down while it led, and
\* the other node, still running, took the stale row over and reports leader.
C13_Witness ==
    \E n, m \in Nodes :
        /\ n # m
        /\ Stopped(m) /\ coord[m].guard
        /\ coord[n].up /\ coord[n].handle
        /\ leader_row.leader_id = n /\ leader_row.term = 2

\* the store holds the timer as Scheduled or Armed
StoredActive(id) == id \in DOMAIN store /\ store[id].status \in {"Scheduled", "Armed"}

WasCancelled(id) ==
    id \in DOMAIN hist /\ \E i \in 1..Len(hist[id]) : hist[id][i] = "Cancelled"

FiredEmitted(id) == \E i \in 1..Len(events[id]) : events[id][i].event_type = "Fired"

\* the index holds the timer because restore loaded it
Restored(id) ==
    /\ id \in DOMAIN timers
    /\ \A c \in 1..MaxCalls : ~(calls[c].op = "schedule" /\ calls[c].id = id)

\* C14 (as claimed): whenever the node's handle reports leader and a timer
\* that restore loaded is still Scheduled or Armed in the store, the node
\* later fires the timer, unless the timer is cancelled or the node stops
\* being leader first; this includes a node that ran restore while its handle
\* reported follower.
C14_RearmOnNewLeader ==
    \A id \in TimerIds :
        (leader.configured /\ leader.is_leader /\ StoredActive(id) /\ Restored(id))
            ~> (FiredEmitted(id) \/ WasCancelled(id) \/ ~leader.is_leader)

\* C15 (as claimed): a kernel built with no leader handle, or as leader, over
\* a store that holds a timer as Scheduled or Armed later has offered exactly
\* a Fired and then a Settled envelope for it and the store holds it as
\* Settled, unless a store or log write failed, set_leader was called or the
\* timer was cancelled.
C15_RestartRecovery ==
    \A id \in TimerIds :
        (kernel = "new" /\ EnsureLeader /\ StoredActive(id))
            ~> \/ /\ EventTypes(id) = <<"Fired", "Settled">>
                  /\ store[id].status = "Settled"
               \/ faults > 0 \/ changes > 0 \/ WasCancelled(id)

\* the envelope a step offers for timer id, when Offers(id) holds
Offers(id) == Len(events'[id]) = Len(events[id]) + 1

Offered(id) == events'[id][Len(events'[id])]

\* C16 (as claimed): for a timer that a schedule call has returned, the first
\* envelope offered to the channel is Scheduled and carries state_version 0.
C16_FirstEnvelopeScheduled ==
    \A c \in 1..MaxCalls :
        (calls[c].op = "schedule" /\ calls[c].result = "Ok")
            => /\ events[calls[c].id] # <<>>
               /\ events[calls[c].id][1].event_type = "Scheduled"
               /\ events[calls[c].id][1].timer.state_version = 0

\* C17 (as claimed): when schedule or cancel offers the Scheduled or the
\* Cancelled envelope of a timer, the store already holds the timer at that
\* state_version or a later one and the command log, if there is one, already
\* holds the record of that state.
C17_PersistThenPublish ==
    [][\A id \in TimerIds :
         (Offers(id) /\ Offered(id).event_type \in {"Scheduled", "Cancelled"})
            => /\ id \in DOMAIN store
               /\ store[id].state_version >= Offered(id).timer.state_version
               /\ logOn => \E i \in 1..Len(cmdlog[id]) :
                              cmdlog[id][i].timer = Offered(id).timer]_vars

\* C18 (as claimed): after a schedule call has returned a persistence error,
\* the index does not hold the timer, no fire task exists for it and no
\* envelope was offered for it.
C18_ScheduleFailureRollsBack ==
    \A c \in 1..MaxCalls :
        (calls[c].op = "schedule" /\ calls[c].result = "Persistence")
            => /\ calls[c].id \notin DOMAIN timers
               /\ calls[c].id \notin DOMAIN tasks
               /\ events[calls[c].id] = <<>>

\* C19 (as claimed): after a cancel call has returned a persistence error, no
\* Cancelled envelope was offered for its timer.
C19_CancelFailureEmitsNothing ==
    \A c \in 1..MaxCalls :
        (calls[c].op = "cancel" /\ calls[c].result = "Persistence")
            => \A i \in 1..Len(events[calls[c].id]) :
                  events[calls[c].id][i].event_type # "Cancelled"

\* the delay schedule_timer computes from a TimerSpec
DelayOf(duration_ms, fire_at) == IF fire_at.some THEN fire_at.ms ELSE duration_ms

\* C20: on a node that may write, schedule with duration_ms = 0 and no fire_at
\* returns InvalidDuration, with fire_at not after now returns
\* InvalidFireTime, and with a delay above max_duration_ms returns
\* InvalidDuration; the step changes neither the index, the store, the command
\* log nor the channel, spawns no task and draws no id.
C20_ValidationLeavesNoTrace ==
    [][\A c \in 1..MaxCalls :
         (/\ calls[c].pc = "idle" /\ calls'[c].op = "schedule"
          /\ ~(leader.configured /\ ~leader.is_leader))
            => \A tenant \in Tenants, duration_ms \in DurationInputs,
                  fire_at \in FireAtInputs :
                 LET none == ~fire_at.some /\ duration_ms = 0
                     past == fire_at.some /\ fire_at.ms <= 0
                     long == ~none /\ ~past
                               /\ DelayOf(duration_ms, fire_at) > MaxDurationMs
                 IN  \/ /\ none => calls'[c].result = "InvalidDuration"
                        /\ past => calls'[c].result = "InvalidFireTime"
                        /\ long => calls'[c].result = "InvalidDuration"
                        /\ (none \/ past \/ long)
                             => /\ calls'[c].pc = "done"
                                /\ UNCHANGED <<timers, store, cmdlog, events,
                                               tasks, pool>>
                     \/ ~ScheduleWith(c, tenant, duration_ms, fire_at)]_vars

\* C20 witness: one schedule call has returned InvalidDuration and another
\* InvalidFireTime.
C20_Witness ==
    \E c1, c2 \in 1..MaxCalls :
        /\ calls[c1].op = "schedule" /\ calls[c1].result = "InvalidDuration"
        /\ calls[c2].op = "schedule" /\ calls[c2].result = "InvalidFireTime"

\* C21: for a timer of the index and a tenant that does not own it, get
\* returns None as it does for an id the index does not hold, list does not
\* return the timer, and cancel returns None and changes nothing in the
\* index, the store, the command log or the channel.
C21_TenantIsolation ==
    /\ [](\A id \in DOMAIN timers :
            \A tenant \in Tenants \ {timers[id].tenant_id} :
               /\ Get(tenant, id) = NoSnap
               /\ \A t \in List(tenant) : t.id # id)
    /\ [][\A c \in 1..MaxCalls :
            (/\ CancelLockStep(c)
             /\ calls[c].id \in DOMAIN timers
             /\ timers[calls[c].id].tenant_id # calls[c].tenant_id)
               => /\ calls'[c].pc = "done" /\ calls'[c].result = "None"
                  /\ calls'[c].snap = NoSnap
                  /\ UNCHANGED <<timers, store, cmdlog, events, tasks, hist>>]_vars

\* C21 witness: a cancel by a tenant that does not own the timer has returned
\* None while the index holds the timer, which is not Cancelled.
C21_Witness ==
    \E c \in 1..MaxCalls :
        /\ calls[c].op = "cancel" /\ calls[c].result = "None"
        /\ calls[c].id \in DOMAIN timers
        /\ timers[calls[c].id].tenant_id # calls[c].tenant_id
        /\ timers[calls[c].id].status # "Cancelled"
        /\ Get(timers[calls[c].id].tenant_id, calls[c].id) = timers[calls[c].id]

\* a step in which the fire task of timer id returns
TaskReturns(id) ==
    /\ id \in DOMAIN tasks /\ tasks[id].pc # "done"
    /\ tasks'[id].pc = "done"

\* C22 (as claimed): is_leader changes, and shutdown is signalled, only in a
\* step of the supervisor's set_leader; no kernel operation and no fire task,
\* a returning one included, changes the flag or signals shutdown.
C22_SingleWriter ==
    [][(leader'.is_leader # leader.is_leader \/ leader'.sent # leader.sent)
          => changes' = changes + 1]_vars

\* C23: a step that drops a clone of a configured leader handle leaves
\* is_leader false and the sender taken with true sent once; over the life of
\* the handle true is sent at most once.
C23_DropSignalsShutdown ==
    /\ [](leader.sent <= 1)
    /\ [][\A id \in TimerIds :
            (TaskReturns(id) /\ leader.configured)
               => /\ ~leader'.is_leader
                  /\ ~leader'.sender
                  /\ leader'.sent = 1]_vars

\* C23 witness: a fire task passed both leader checks, ran to its end and
\* dropped its clones: with no set_leader call in between the flag went from
\* true to false and true was sent once.
C23_Witness ==
    \E id \in DOMAIN tasks :
        /\ tasks[id].pc = "done"
        /\ EventTypes(id) = <<"Fired", "Settled">>
        /\ leader.configured /\ changes = 0
        /\ ~leader.is_leader /\ ~leader.sender /\ leader.sent = 1

C25_AlteredEnvelopeRejected ==
    (signing.pc = "verified" /\ signing.field # "none") => signing.verdict = "false"

Max(a, b) == IF a >= b THEN a ELSE b

\* C26 (as claimed): whatever samples were recorded, the hint 0 included,
\* adjust_fire_at(now, target) returns the later of now + MIN_LEAD_MS and
\* target - compensation_hint, so never a time before now + MIN_LEAD_MS.
C26_AdjustNeverInPast ==
    jitter.asked =>
        /\ jitter.adjusted = Max(jitter.now + MIN_COMPENSATED_LEAD_MS,
                                 jitter.target - CompensationHintMs(jitter))
        /\ jitter.adjusted >= jitter.now + MIN_COMPENSATED_LEAD_MS

\* the steps in which a fire task awaits the store or the command log or
\* sends on the channel
TaskIoPcs ==
    {"armPersist", "emitFired", "persistFired", "logFired", "persistSettled",
     "emitSettled", "logSettled"}

\* C27 (as claimed): no fire task holds the index lock while its store
\* upsert, its command-log append or its channel send is in progress.
\* (schedule and cancel take and release the lock within one step: lines
\* 599-602 and 629-647 hold no await.)
C27_NoIoUnderLock ==
    \A id \in DOMAIN tasks : tasks[id].pc \in TaskIoPcs => lock # id

\* C28 (as claimed): a fire task that at its arm step finds the timer absent
\* or in a status other than Scheduled returns there; it does not go on to
\* the sleep.
C28_ArmExitsWhenNotScheduled ==
    [][\A id \in TimerIds :
          (/\ TaskAt(id, "arm")
           /\ tasks'[id].pc # "arm"
           /\ ~(id \in DOMAIN timers /\ timers[id].status = "Scheduled"))
             => tasks'[id].pc = "done"]_vars

SettledEmitted(id) ==
    \E i \in 1..Len(events[id]) : events[id][i].event_type = "Settled"

\* C29: a fire task one of whose store upserts or log appends has returned
\* Err goes on: unless the timer is cancelled or set_leader changes the flag,
\* the task later has offered the Fired and the Settled envelope, the index
\* holds the timer as Settled and the task has returned.
C29_WriteFailureDoesNotAbort ==
    \A id \in TimerIds :
        (id \in DOMAIN tasks /\ tasks[id].failed)
            ~> \/ /\ FiredEmitted(id) /\ SettledEmitted(id)
                  /\ id \in DOMAIN timers /\ timers[id].status = "Settled"
                  /\ TaskAt(id, "done")
               \/ WasCancelled(id)
               \/ changes > 0

\* C29 witness: the append of the Fire record failed inside the task, no
\* cancel came, and the task went on to Settled and returned.
C29_Witness ==
    \E id \in DOMAIN tasks :
        /\ tasks[id].failed /\ tasks[id].pc = "done"
        /\ ~WasCancelled(id) /\ changes = 0
        /\ logOn /\ Len(cmdlog[id]) = 1 /\ cmdlog[id][1].command = "settle"
        /\ timers[id].status = "Settled"
        /\ FiredEmitted(id) /\ SettledEmitted(id)

\* the commands of the records the log holds for timer id, oldest first
Commands(id) == [i \in 1..Len(cmdlog[id]) |-> cmdlog[id][i].command]

\* C30: for a timer that restore loaded and that was not cancelled, the
\* command log holds at every moment a prefix of Fire, Settle, or Settle alone
\* after a failed append; once its fire task has settled it and returned with
\* no write error, the log holds exactly Fire then Settle: restore and the
\* Armed transition append nothing.
C30_RestoredTimerLog ==
    \A id \in DOMAIN tasks :
        (Restored(id) /\ logOn /\ ~WasCancelled(id))
            => /\ \/ IsPrefix(Commands(id), <<"fire", "settle">>)
                  \/ tasks[id].failed /\ Commands(id) = <<"settle">>
               /\ (tasks[id].pc = "done" /\ timers[id].status = "Settled"
                     /\ ~tasks[id].failed)
                    => Commands(id) = <<"fire", "settle">>

\* C30 witness: a timer restored as Scheduled was armed, fired and settled by
\* its task, and the log holds the two records.
C30_Witness ==
    \E id \in DOMAIN tasks :
        /\ Restored(id) /\ logOn /\ ~WasCancelled(id) /\ ~tasks[id].failed
        /\ tasks[id].pc = "done"
        /\ hist[id] = <<"Scheduled", "Armed", "Fired", "Settled">>
        /\ store[id].state_version = 3
        /\ Commands(id) = <<"fire", "settle">>

\* C31: one election round follows the table on the row it read.  Another
\* node with a fresh heartbeat: the round sends no statement and steps down.
\* Another node with a stale heartbeat: the round sends a takeover with the
\* term it read plus one, the update changes the row only if the row is stale
\* when it runs, and the round's result is whether it did.  No row: the round
\* inserts itself with term 1 unless a row exists by then, and the result is
\* whether the insert took effect.  The node itself with a fresh heartbeat:
\* no statement, the node is leader.  The handle is set to the round's result.
C31_ElectionTable ==
    [][\A n \in Nodes :
         LET me == coord[n]
             nx == coord'[n]
             s == me.seen
         IN  /\ (me.el = "fetched" /\ nx.up /\ nx.el # "fetched")
                  => /\ leader_row' = leader_row
                     /\ (s # NoRow /\ s.leader_id # n /\ s.age < ElectionTimeout)
                          => (nx.el = "set" /\ ~nx.res /\ ~nx.guard)
                     /\ (s # NoRow /\ s.leader_id # n /\ s.age >= ElectionTimeout)
                          => (nx.el = "takeover" /\ nx.term = s.term + 1)
                     /\ (s = NoRow) => nx.el = "insert"
                     /\ (s # NoRow /\ s.leader_id = n /\ s.age <= ElectionTimeout)
                          => (nx.el = "set" /\ nx.res /\ nx.guard)
             /\ (me.el = "takeover" /\ nx.el = "reply")
                  => LET hit == leader_row # NoRow /\ leader_row.age > ElectionTimeout
                     IN  /\ nx.res = hit
                         /\ leader_row' = IF hit
                                          THEN [leader_id |-> n, term |-> me.term, age |-> 0]
                                          ELSE leader_row
             /\ (me.el = "insert" /\ nx.el = "reply")
                  => /\ nx.res = (leader_row = NoRow)
                     /\ leader_row' = IF leader_row = NoRow
                                      THEN [leader_id |-> n, term |-> 1, age |-> 0]
                                      ELSE leader_row
             /\ (me.el = "reply" /\ nx.el = "set") => nx.guard = me.res
             /\ (me.el = "set" /\ me.up /\ nx.up /\ nx.el # "set")
                  => nx.handle = me.res]_vars

\* C31 witness: a node that was not leader read the other node's stale row
\* of term 1, its takeover changed the row to itself with term 2, and the
\* round is about to make it leader.
C31_Witness ==
    \E n, m \in Nodes :
        /\ n # m
        /\ coord[m].up /\ coord[m].guard
        /\ coord[n].el = "reply" /\ coord[n].res /\ ~coord[n].guard
        /\ leader_row = [leader_id |-> n, term |-> 2, age |-> 0]

\* C32 (as claimed): of the nodes that try to take over the same stale row,
\* or to insert the first row, at most one succeeds: a takeover that changes
\* the row carries a term above the row's term, so no other node has
\* succeeded with the row this node read; a node whose statement changed
\* nothing ends its round with is_leader() = false while the row names
\* another node.
C32_OneWinner ==
    [][\A n \in Nodes :
         LET me == coord[n]
             nx == coord'[n]
         IN  /\ (me.el = "takeover" /\ nx.el = "reply" /\ nx.res)
                  => leader_row.term < me.term
             /\ (me.el = "insert" /\ nx.el = "reply" /\ nx.res)
                  => leader_row = NoRow
             /\ (me.el \in {"takeover", "insert"} /\ nx.el = "reply" /\ ~nx.res)
                  => (leader_row' # NoRow /\ leader_row'.leader_id # n)
             /\ (me.el = "set" /\ ~me.res /\ nx.el # "set")
                  => ~nx.handle]_vars

\* C33 (as claimed): when a heartbeat tick of a running node completes and
\* its statement did not refresh the row in the node's name, because the
\* statement failed or because the row names another node or is missing, the
\* node's is_leader() is false.
C33_HeartbeatFailureStepsDown ==
    [][\A n \in Nodes :
         LET me == coord[n]
             nx == coord'[n]
             refreshed == /\ leader_row # NoRow /\ leader_row.leader_id = n
                          /\ leader_row' = [leader_row EXCEPT !.age = 0]
         IN  /\ (me.hb = "send" /\ nx.hb = "idle" /\ ~refreshed) => ~nx.handle
             /\ (me.hb = "failed" /\ nx.hb = "idle") => ~nx.handle]_vars

\* C34: while the supervisor runs and no clone of the handle was dropped,
\* once the metrics task has processed an update the handle reports leader
\* exactly when that update names this node as current leader with server
\* state Leader.
C34_HandleFollowsMetrics ==
    (raft.running /\ ~raft.dropped /\ raft.snapshot # NoMetrics)
        => (raft.handle <=> (/\ raft.snapshot.current_leader = RaftNodeId
                             /\ raft.snapshot.state = "Leader"))

\* C34 witness: the task processed the update that made this node leader and
\* the handle reports leader; the node has since published that the peer
\* leads, which the task has yet to read.
C34_Witness ==
    /\ raft.running /\ ~raft.dropped
    /\ raft.snapshot = [current_leader |-> RaftNodeId, state |-> "Leader"]
    /\ raft.handle
    /\ raft.unseen
    /\ raft.metrics = [current_leader |-> RaftPeerId, state |-> "Follower"]

\* C35 (as claimed): since the last register_root of a root no node was
\* returned as ready more than once; every node a call returned had all the
\* nodes of its after list recorded complete since that registration;
\* register_root returned exactly the nodes other than the root node whose
\* after list is empty; record_completion for a root that was not registered
\* returned nothing.
C35_ReadyOnceAndInOrder ==
    /\ \A r \in DOMAIN ghist.reg :
         \A n \in GraphNodeNames : ghist.reg[r].given[n] <= 1
    /\ \A r \in DOMAIN ghist.reg :
         (ghist.last.op # "none" /\ ghist.last.root_id = r)
            => \A n \in ghist.last.ready :
                 /\ n \in DOMAIN ghist.reg[r].spec.nodes
                 /\ ghist.reg[r].spec.nodes[n] \subseteq ghist.reg[r].completed
    /\ \A r \in DOMAIN ghist.reg :
         (ghist.last.op = "register" /\ ghist.last.root_id = r)
            => ghist.last.ready =
                 {n \in DOMAIN ghist.reg[r].spec.nodes :
                     n # ghist.reg[r].root_node /\ ghist.reg[r].spec.nodes[n] = {}}
    /\ (ghist.last.op = "complete" /\ ~ghist.last.known) => ghist.last.ready = {}

\* the follow-up timer of node n of the graph of root is in the index
FollowUpScheduled(root, n) ==
    \E f \in DOMAIN timers :
        f # root /\ timers[f].graph_root_id = root /\ timers[f].graph_node_id = n

\* C36 (as claimed): once the root timer of a graph has fired, every node of
\* the graph whose after list names the root and nothing else is scheduled
\* as a follow-up timer some time later, unless a store or log write failed.
C36_FollowUpsScheduled ==
    \A id \in TimerIds : \A n \in GraphNodeNames :
        (/\ id \in DOMAIN timers
         /\ timers[id].temporal_graph # NoGraph
         /\ n \in DOMAIN timers[id].temporal_graph.nodes
         /\ timers[id].temporal_graph.nodes[n] = {timers[id].temporal_graph.root}
         /\ FiredEmitted(id))
            ~> (FollowUpScheduled(id, n) \/ faults > 0)

\* C37 (as claimed): once shutdown of a node's coordinator has returned, the
\* node's is_leader() is false after every step, and no statement of the
\* node changes the leader row, whatever was in flight at shutdown.
C37_ShutdownIsFinal ==
    [][\A n \in Nodes :
         ~coord[n].up
            => /\ ~coord'[n].handle
               /\ (coord[n].el \in {"insert", "refresh", "takeover"}
                     /\ coord'[n].el # coord[n].el) => leader_row' = leader_row
               /\ (coord[n].hb = "send" /\ coord'[n].hb # "send")
                    => leader_row' = leader_row]_vars

\* C38 (as claimed): whenever a fire task moves a timer to Fired, the node's
\* leader handle, if one is configured, reports leader at that step.
C38_FiredOnlyByLeader ==
    [][\A id \in TimerIds :
         (/\ TaskAt(id, "fire")
          /\ id \in DOMAIN timers'
          /\ timers'[id].status = "Fired"
          /\ id \in DOMAIN timers /\ timers[id].status # "Fired")
            => EnsureLeader]_vars

\* C39 (as claimed): the term of the leader row never decreases, and every
\* write that changes leader_id to a different node strictly increases it.
C39_TermsGrow ==
    [][/\ leader_row'.term >= leader_row.term
       /\ leader_row'.leader_id # leader_row.leader_id
            => leader_row'.term > leader_row.term]_vars

\* C40: for each timer, the state_version of its row in the store never
\* decreases from one upsert to the next: no upsert that completes later
\* puts an older snapshot over a newer one.
C40_StoreVersionsGrow ==
    [][\A id \in DOMAIN store :
         /\ id \in DOMAIN store'
         /\ store'[id].state_version >= store[id].state_version]_vars
====
